---- MODULE Spec2Model ----
(***************************************************************************)
(* Verification model of the infrastructure monitoring agent.              *)
(*                                                                         *)
(* The agent is modelled as cooperating parts, each with its own           *)
(* specification over the shared variables:                                *)
(*   SchedSpec     - the daily scheduler run with per-vessel retry         *)
(*                   (services/scheduler.py, scheduler_run_logger.py)      *)
(*   RunLifeSpec   - the same run with the shutdown of the application     *)
(*   SlaSpec       - SLA violation lifecycle tracking across runs          *)
(*                   (services/sla_analyzer.py, database.py)               *)
(*   ApprovalSpec  - the human approval workflow, its webhook callbacks,   *)
(*                   timeout worker and the ticket workflow that waits     *)
(*                   (services/approval_workflow.py, jira_service.py)      *)
(*   DupSpec       - the ticket store and the duplicate prevention rule    *)
(*                   (services/ticket_lifecycle_manager.py)                *)
(*   TrigSpec      - the triggers of a run (scheduler.py, web/app.py)      *)
(*   StepSpec      - the ticket creation step of the daily workflow        *)
(*                   (services/monitoring_orchestrator.py)                 *)
(*   FleetSpec     - the bounded fleet collection                          *)
(*                   (services/data_collector.py)                          *)
(*   RetentionSpec - the run log tables and their retention cleanup        *)
(*                   (services/scheduler_run_logger.py)                    *)
(*   MigrationSpec - the schema migration                                  *)
(*                   (services/database_migrations.py)                     *)
(*   StartupSpec   - the start of the application and the store backup     *)
(*                   (main.py, services/database_migrations.py)            *)
(*   RecordsSpec   - the monitoring records and their retention cleanup    *)
(*                   (services/database.py)                                *)
(*   ClientSpec    - the retry loop of the probe client                    *)
(*                   (services/influxdb_client.py)                         *)
(*   PingSpec      - the status and downtime aging of a component          *)
(*                   (services/influxdb_client.py, data_collector.py)      *)
(***************************************************************************)
EXTENDS Integers, Sequences, FiniteSets, TLC

(***************************************************************************)
(* Bounds of the model                                                     *)
(***************************************************************************)
NumVessels == 3
MaxPasses == 2
MaxViolations == 3
NumCallbacks == 2
MaxRequests == 1
MaxClock == 65
MaxTickets == 4
MaxDupClock == 24
MaxRuns == 3
MaxIssues == 2
MaxAlerts == 2
FleetSize == 11
MaxStoreRuns == 2
MaxStoreResults == 3
MaxStoreDays == 270
MaxMigrateCalls == 3
MaxStarts == 3
NumServices == 2
MaxRecords == 3
MaxRecordsDays == 180
MaxClientCalls == 1
NumDevices == 2
MaxSamples == 2
MaxPingClock == 3

(***************************************************************************)
(* Program constants                                                       *)
(***************************************************************************)
max_retry_attempts == 3
uptime_threshold_percentage == 95
monitoring_window_hours == 24
default_timeout_minutes == 60
max_pending_requests == 100
auto_cleanup_hours == 24
cleanup_interval_minutes == 5
time_window_hours == 24
max_tickets_per_component == 3
max_instances == 1
max_concurrent_vessels == 10
days_to_keep == 90
max_retries == 3

VARIABLES
    \* ---- scheduler run (MonitoringScheduler) ----
    runs,                   \* table scheduler_runs: run id -> row
    results,                \* table scheduler_vessel_results, in insert order
    run_log,                \* the in-memory SchedulerRunLog of the current run
    spc,                    \* position of _execute_enhanced_monitoring_with_retry
    attempt,                \* loop variable of the retry loop
    failed_vessels,         \* list of vessels to query in this attempt
    vi,                     \* position of the inner for loop in failed_vessels
    current_attempt_failed, \* vessels kept for the next attempt
    successful_vessels,     \* keys of the successful_vessels dict
    total_retry_attempts,
    returned,               \* run ids whose handler has returned or raised
    queries,                \* history: every collect_vessel_metrics call made
    fleet_metrics,          \* what execute_daily_monitoring collected itself
    \* ---- SLA tracking (SLAAnalyzer, DatabaseService) ----
    sla_violation_history,      \* table sla_violation_history, id = index
    component_status_history,   \* table component_status_history
    _active_violations,         \* SLAAnalyzer cache: (vessel, component) -> id
    sla_pass,                   \* [pc, n, queue, timestamp] of the fleet analysis
    observed,                   \* history: last observation of each component
    \* ---- approval workflow (ApprovalWorkflow and its users) ----
    requests,               \* the ApprovalRequest objects, id = index
    _pending_requests,      \* keys of the dict _pending_requests
    _completed_requests,    \* keys of the dict _completed_requests
    _approval_decisions,    \* dict request id -> decision status
    callbacks,              \* the webhook callback threads
    worker,                 \* the _cleanup_worker thread
    workflow,               \* the thread in create_ticket_with_approval_workflow
    wf_results,             \* history: what each ticket workflow returned
    applied,                \* history: terminal statuses applied per request
    clock,                  \* wall clock of the approval workflow, minutes
    \* ---- ticket store (TicketManager, TicketLifecycleManager) ----
    ticket_records,         \* table ticket_records, id = index
    dup_clock,              \* wall clock of the ticket store, hours
    \* ---- the two MonitoringScheduler objects of the process ----
    _is_running,            \* MonitoringScheduler._is_running, per scheduler
    next_run_time,          \* the job daily_monitoring is due, per scheduler
    _instances,             \* running instances of the job, per scheduler
    scheduler_runs,         \* table scheduler_runs as the two schedulers fill it
    \* ---- ticket creation step of the daily workflow ----
    jira_issues,            \* the issues of the tracker project
    persistent_alerts,      \* the alerts the step still has to process
    step_log,               \* history: what the step did with each alert
    \* ---- fleet collection (DataCollector.collect_all_vessels_metrics) ----
    fleet_pc,               \* position of collect_all_vessels_metrics
    semaphore,              \* the counter of asyncio.Semaphore
    tasks,                  \* vessel -> state of its collect_with_semaphore
    \* ---- retention of the run log (SchedulerRunLogger) ----
    store_runs,                 \* rows of table scheduler_runs
    scheduler_vessel_results,   \* rows of table scheduler_vessel_results
    executing,                  \* ids of the runs being executed
    store_now,                  \* datetime.utcnow(), in days
    cleaned,                    \* history: result rows deleted by cleanup
    \* ---- schema migration (DatabaseMigration) ----
    db_tables,              \* the tables of the database file
    schema_version,         \* the version column of table schema_version
    migrating,              \* position and locals of migrate_to_latest
    migrated,               \* history: what the current call found and did
    \* ---- start of the application (main.py) ----
    startup,                \* position and locals of ApplicationManager.run
    store_file,             \* the file at database_path
    backup_files,           \* the files <database_path>.backup.<time>
    migration_log,          \* history: every migration applied to the file
    \* ---- retention of the monitoring records (DatabaseService) ----
    tables,                 \* the rows of the five tables cleanup works on
    sqlite_sequence,        \* the AUTOINCREMENT counter of each table
    records_now,            \* datetime.utcnow() and CURRENT_TIMESTAMP, in days
    \* ---- the probe client (InfluxDBClientWrapper) ----
    retry_operation,        \* position and locals of _retry_operation
    http_requests,          \* history: the outcome of every request sent
    \* ---- ping samples of one component (PingData, DataCollector) ----
    ping_devices,           \* per device, its samples as the database has them
    ping_now,               \* datetime.now(timezone.utc), in sample intervals
    collected               \* what the last _collect_component_status computed

schedVars == <<runs, results, run_log, spc, attempt, failed_vessels, vi,
               current_attempt_failed, successful_vessels,
               total_retry_attempts, returned, queries>>

workflowVars == <<fleet_metrics>>

slaVars == <<sla_violation_history, component_status_history,
             _active_violations, sla_pass, observed>>

approvalVars == <<requests, _pending_requests, _completed_requests,
                  _approval_decisions, callbacks, worker, workflow,
                  wf_results, applied, clock>>

dupVars == <<ticket_records, dup_clock>>

trigVars == <<_is_running, next_run_time, _instances, scheduler_runs>>

stepVars == <<jira_issues, persistent_alerts, step_log>>

fleetVars == <<fleet_pc, semaphore, tasks>>

retentionVars == <<store_runs, scheduler_vessel_results, executing,
                   store_now, cleaned>>

migrationVars == <<db_tables, schema_version, migrating, migrated>>

startupVars == <<startup, store_file, backup_files, migration_log>>

recordsVars == <<tables, sqlite_sequence, records_now>>

clientVars == <<retry_operation, http_requests>>

pingVars == <<ping_devices, ping_now, collected>>

vars == <<schedVars, slaVars, approvalVars, dupVars, trigVars, stepVars,
          fleetVars, retentionVars, migrationVars, startupVars, recordsVars,
          clientVars, pingVars, workflowVars>>

\* What the workflow run after the query phase leaves alone
notRunVars ==
    <<slaVars, approvalVars, dupVars, trigVars, stepVars, fleetVars, retentionVars,
      migrationVars, startupVars, recordsVars, clientVars, pingVars>>

\* What the actions of one part leave alone: the state of the other parts
notSchedVars ==
    <<slaVars, approvalVars, dupVars, trigVars, stepVars, fleetVars, retentionVars,
      migrationVars, startupVars, recordsVars, clientVars, pingVars,
      workflowVars>>
notSlaVars ==
    <<schedVars, approvalVars, dupVars, trigVars, stepVars, fleetVars, retentionVars,
      migrationVars, startupVars, recordsVars, clientVars, pingVars,
      workflowVars>>
notApprovalVars ==
    <<schedVars, slaVars, dupVars, trigVars, stepVars, fleetVars, retentionVars,
      migrationVars, startupVars, recordsVars, clientVars, pingVars,
      workflowVars>>
notDupVars ==
    <<schedVars, slaVars, approvalVars, trigVars, stepVars, fleetVars, retentionVars,
      migrationVars, startupVars, recordsVars, clientVars, pingVars,
      workflowVars>>
notTrigVars ==
    <<schedVars, slaVars, approvalVars, dupVars, stepVars, fleetVars, retentionVars,
      migrationVars, startupVars, recordsVars, clientVars, pingVars,
      workflowVars>>
notStepVars ==
    <<schedVars, slaVars, approvalVars, dupVars, trigVars, fleetVars, retentionVars,
      migrationVars, startupVars, recordsVars, clientVars, pingVars,
      workflowVars>>
notRetentionVars ==
    <<schedVars, slaVars, approvalVars, dupVars, trigVars, stepVars, fleetVars,
      migrationVars, startupVars, recordsVars, clientVars, pingVars,
      workflowVars>>
notMigrationVars ==
    <<schedVars, slaVars, approvalVars, dupVars, trigVars, stepVars, fleetVars,
      retentionVars, startupVars, recordsVars, clientVars, pingVars,
      workflowVars>>
notStartupVars ==
    <<schedVars, slaVars, approvalVars, dupVars, trigVars, stepVars, fleetVars,
      retentionVars, migrationVars, recordsVars, clientVars, pingVars,
      workflowVars>>
notRecordsVars ==
    <<schedVars, slaVars, approvalVars, dupVars, trigVars, stepVars, fleetVars,
      retentionVars, migrationVars, startupVars, clientVars, pingVars,
      workflowVars>>
notClientVars ==
    <<schedVars, slaVars, approvalVars, dupVars, trigVars, stepVars, fleetVars,
      retentionVars, migrationVars, startupVars, recordsVars, pingVars,
      workflowVars>>
notPingVars ==
    <<schedVars, slaVars, approvalVars, dupVars, trigVars, stepVars, fleetVars,
      retentionVars, migrationVars, startupVars, recordsVars, clientVars,
      workflowVars>>
notFleetVars ==
    <<schedVars, slaVars, approvalVars, dupVars, trigVars, stepVars, retentionVars,
      migrationVars, startupVars, recordsVars, clientVars, pingVars,
      workflowVars>>

(***************************************************************************)
(* Generic helpers                                                         *)
(***************************************************************************)
Range(s) == {s[i] : i \in 1..Len(s)}

(***************************************************************************)
(* Scheduler: configuration and errors                                     *)
(***************************************************************************)
\* config.get_vessel_ids(): the configured vessels, in dict order
vessel_ids == [i \in 1..NumVessels |-> i]

Vessels == Range(vessel_ids)

\* Keyword lists of _should_retry_vessel_query
retryable_errors == {"timeout", "connection", "network", "unreachable",
                     "refused", "reset", "temporary", "unavailable"}
retryable_db_errors == {"database is locked", "database connection",
                        "connection pool", "too many connections"}
non_retryable_errors == {"authentication", "unauthorized", "forbidden",
                         "invalid credentials", "permission denied",
                         "configuration error", "invalid configuration",
                         "ssl certificate", "certificate verify failed"}
retryable_types == {"TimeoutError", "ConnectionError", "OSError", "socket.error"}

\* An exception raised by data_collector.collect_vessel_metrics, described
\* by what _should_retry_vessel_query looks at: the keywords its lowercased
\* message contains and its type name.  status is the HTTP status the probe
\* got (0: the failure was not an HTTP status), which the message built by
\* _execute_query_http carries as "Query failed with status <code>: <body>".
\* The body is chosen by the vessel's database server.
QueryErrors ==
    { [status |-> 0,   kw |-> {"timeout"},      type |-> "TimeoutError"],
      [status |-> 0,   kw |-> {"connection", "refused"},
                                                type |-> "ConnectionError"],
      [status |-> 0,   kw |-> {"certificate verify failed"},
                                                type |-> "SSLError"],
      [status |-> 401, kw |-> {},               type |-> "RequestException"],
      [status |-> 401, kw |-> {"unauthorized"}, type |-> "RequestException"] }

NoError == [status |-> 0, kw |-> {}, type |-> "none"]

\* _should_retry_vessel_query(error, attempt)
_should_retry_vessel_query(error) ==
    IF error.kw \cap non_retryable_errors # {} THEN FALSE
    ELSE IF error.kw \cap retryable_errors # {} THEN TRUE
    ELSE IF error.kw \cap retryable_db_errors # {} THEN TRUE
    ELSE IF error.type \in retryable_types THEN TRUE
    ELSE TRUE

\* _handle_vessel_query_error(error, vessel_id, attempt): the handler the
\* message selects.  _handle_network_timeout_error and
\* _handle_authentication_error read vessel_config.host and .port of the
\* InfluxDBConnection returned by config.get_vessel_connection, a dataclass
\* with the fields url, token, org, bucket and timeout only, so both raise
\* AttributeError; _handle_database_connection_error catches its own errors
\* and the generic branch only logs.
_handle_vessel_query_error(error) ==
    IF error.kw \cap {"timeout", "timed out"} # {} THEN "AttributeError"
    ELSE IF error.kw \cap {"authentication", "unauthorized", "forbidden"} # {}
         THEN "AttributeError"
    ELSE IF error.kw \cap {"database", "connection pool", "too many connections"} # {}
         THEN "handled"
    ELSE "handled"

\* SchedulerRunLog.create_new(total_vessels)
create_new(total) ==
    [status |-> "running", total_vessels |-> total, successful_vessels |-> 0,
     failed_vessels |-> 0, retry_attempts |-> 0, ended |-> FALSE,
     error_message |-> "none"]

\* SchedulerRunLog.mark_completed(successful, failed, retry_attempts)
mark_completed(log, successful, failed, retries) ==
    [log EXCEPT !.ended = TRUE,
                !.successful_vessels = successful,
                !.failed_vessels = failed,
                !.retry_attempts = retries,
                !.status = IF failed = 0 THEN "completed" ELSE "failed"]

\* SchedulerRunLog.mark_failed(error_message)
mark_failed(log, msg) ==
    [log EXCEPT !.ended = TRUE, !.status = "failed", !.error_message = msg]

\* The id of the run being executed: the last row of scheduler_runs
CurRun == Len(runs)

(***************************************************************************)
(* Scheduler: actions                                                      *)
(***************************************************************************)
\* No workflow has run
WorkflowInit ==
    fleet_metrics = [run_id |-> 0, queried |-> {}, analysed |-> {}]

SchedInit ==
    /\ runs = <<>>
    /\ results = <<>>
    /\ run_log = create_new(0)
    /\ spc = "idle"
    /\ attempt = 0
    /\ failed_vessels = <<>>
    /\ vi = 1
    /\ current_attempt_failed = <<>>
    /\ successful_vessels = {}
    /\ total_retry_attempts = 0
    /\ returned = {}
    /\ queries = <<>>

\* _execute_enhanced_monitoring_with_retry, lines 408-417 and the
\* initialisation of _execute_vessel_queries_with_retry, lines 495-500:
\* the run is created, persisted as running, and the retry loop is entered.
\* The job is scheduled with max_instances=1 and an execution reads neither
\* table, so the model follows one execution from empty tables.
StartRun ==
    /\ spc = "idle"
    /\ runs = <<>>
    /\ LET log == create_new(Len(vessel_ids)) IN
        /\ run_log' = log
        /\ runs' = Append(runs, log)                 \* log_run_start
    /\ successful_vessels' = {}
    /\ failed_vessels' = vessel_ids
    /\ total_retry_attempts' = 0
    /\ current_attempt_failed' = <<>>
    /\ vi' = 1
    /\ attempt' = 1
    /\ spc' = IF max_retry_attempts >= 1 /\ vessel_ids # <<>>
              THEN "query" ELSE "close"
    /\ UNCHANGED <<results, returned, queries>>
    /\ UNCHANGED notSchedVars

\* QuerySuccess with the vessel kept in the working set of the next attempt
QuerySuccess_StaysInWorkingSet ==
    /\ spc = "query"
    /\ vi <= Len(failed_vessels)
    /\ LET vessel_id == failed_vessels[vi] IN
        /\ results' = Append(results,
                [run_id |-> CurRun, vessel_id |-> vessel_id,
                 attempt_number |-> attempt, success |-> TRUE,
                 error |-> NoError])
        /\ successful_vessels' = successful_vessels \cup {vessel_id}
        /\ queries' = Append(queries,
                [run_id |-> CurRun, vessel_id |-> vessel_id,
                 attempt_number |-> attempt, success |-> TRUE,
                 error |-> NoError])
        /\ current_attempt_failed' =
                IF attempt < max_retry_attempts
                THEN Append(current_attempt_failed, vessel_id)
                ELSE current_attempt_failed
    /\ vi' = vi + 1
    /\ UNCHANGED <<runs, run_log, spc, attempt, failed_vessels,
                   total_retry_attempts, returned>>
    /\ UNCHANGED notSchedVars

\* One iteration of "for vessel_id in failed_vessels" in which
\* collect_vessel_metrics returns normally (lines 512-533).
QuerySuccess ==
    /\ spc = "query"
    /\ vi <= Len(failed_vessels)
    /\ LET vessel_id == failed_vessels[vi] IN
        /\ results' = Append(results,
                [run_id |-> CurRun, vessel_id |-> vessel_id,
                 attempt_number |-> attempt, success |-> TRUE,
                 error |-> NoError])
        /\ successful_vessels' = successful_vessels \cup {vessel_id}
        /\ queries' = Append(queries,
                [run_id |-> CurRun, vessel_id |-> vessel_id,
                 attempt_number |-> attempt, success |-> TRUE,
                 error |-> NoError])
    /\ vi' = vi + 1
    /\ UNCHANGED <<runs, run_log, spc, attempt, failed_vessels,
                   current_attempt_failed, total_retry_attempts, returned>>
    /\ UNCHANGED notSchedVars

\* One iteration in which collect_vessel_metrics raises and the error
\* handler returns (lines 535-567).
QueryFailure ==
    /\ spc = "query"
    /\ vi <= Len(failed_vessels)
    /\ \E error \in QueryErrors :
        LET vessel_id == failed_vessels[vi]
            should_retry == _should_retry_vessel_query(error)
        IN
        /\ _handle_vessel_query_error(error) = "handled"
        /\ queries' = Append(queries,
                [run_id |-> CurRun, vessel_id |-> vessel_id,
                 attempt_number |-> attempt, success |-> FALSE,
                 error |-> error])
        /\ results' = Append(results,
                [run_id |-> CurRun, vessel_id |-> vessel_id,
                 attempt_number |-> attempt, success |-> FALSE,
                 error |-> error])
        /\ current_attempt_failed' =
                IF should_retry /\ attempt < max_retry_attempts
                THEN Append(current_attempt_failed, vessel_id)
                ELSE current_attempt_failed
    /\ vi' = vi + 1
    /\ UNCHANGED <<runs, run_log, spc, attempt, failed_vessels,
                   successful_vessels, total_retry_attempts, returned>>
    /\ UNCHANGED notSchedVars

\* One iteration in which collect_vessel_metrics raises and the error
\* handler called at line 537 raises in its turn.  The exception leaves the
\* except block before the result row is written (line 552), leaves
\* _execute_vessel_queries_with_retry, and is caught at line 468 of
\* _execute_enhanced_monitoring_with_retry: mark_failed, log_run_completion,
\* raise.
QueryHandlerRaises ==
    /\ spc = "query"
    /\ vi <= Len(failed_vessels)
    /\ \E error \in QueryErrors :
        /\ _handle_vessel_query_error(error) # "handled"
        /\ queries' = Append(queries,
                [run_id |-> CurRun, vessel_id |-> failed_vessels[vi],
                 attempt_number |-> attempt, success |-> FALSE,
                 error |-> error])
        /\ LET log == mark_failed(run_log, _handle_vessel_query_error(error)) IN
            /\ run_log' = log
            /\ runs' = [runs EXCEPT ![CurRun] = log]
    /\ spc' = "idle"
    /\ returned' = returned \cup {CurRun}
    /\ UNCHANGED <<results, attempt, failed_vessels, vi, current_attempt_failed,
                   successful_vessels, total_retry_attempts>>
    /\ UNCHANGED notSchedVars

\* EndAttempt with the working set carried over but the attempt number not
\* advanced
EndAttempt_SameAttemptNumber ==
    /\ spc = "query"
    /\ vi > Len(failed_vessels)
    /\ failed_vessels' = current_attempt_failed
    /\ total_retry_attempts' =
            IF attempt < max_retry_attempts /\ current_attempt_failed # <<>>
            THEN total_retry_attempts + Len(current_attempt_failed)
            ELSE total_retry_attempts
    /\ attempt' = attempt
    /\ current_attempt_failed' = <<>>
    /\ vi' = 1
    /\ spc' = IF attempt + 1 <= max_retry_attempts /\ current_attempt_failed # <<>>
              THEN "query" ELSE "close"
    /\ UNCHANGED <<runs, results, run_log, successful_vessels, returned, queries>>
    /\ UNCHANGED notSchedVars

\* The end of one attempt (lines 569-578) and the head of the next
\* iteration of the retry loop (lines 500-506).
EndAttempt ==
    /\ spc = "query"
    /\ vi > Len(failed_vessels)
    /\ failed_vessels' = current_attempt_failed
    /\ total_retry_attempts' =
            IF attempt < max_retry_attempts /\ current_attempt_failed # <<>>
            THEN total_retry_attempts + Len(current_attempt_failed)
            ELSE total_retry_attempts
    /\ attempt' = attempt + 1
    /\ current_attempt_failed' = <<>>
    /\ vi' = 1
    /\ spc' = IF attempt + 1 <= max_retry_attempts /\ current_attempt_failed # <<>>
              THEN "query" ELSE "close"
    /\ UNCHANGED <<runs, results, run_log, successful_vessels, returned, queries>>
    /\ UNCHANGED notSchedVars

\* CloseRun with the failed count taken from the failed result rows of the
\* run instead of the list the query phase returned
CloseRun_CountsFailedResults ==
    /\ spc = "close"
    /\ LET failed_rows == {i \in 1..Len(results) :
                results[i].run_id = CurRun /\ ~results[i].success}
           log == mark_completed(run_log, Cardinality(successful_vessels),
                                 Cardinality(failed_rows),
                                 total_retry_attempts) IN
        /\ run_log' = log
        /\ runs' = [runs EXCEPT ![CurRun] = log]
    /\ spc' = IF successful_vessels # {} THEN "workflow" ELSE "nodata"
    /\ UNCHANGED <<results, attempt, failed_vessels, vi, current_attempt_failed,
                   successful_vessels, total_retry_attempts, returned, queries>>
    /\ UNCHANGED notSchedVars

\* Lines 428-433: mark_completed with the lengths the query phase returned,
\* then log_run_completion.
CloseRun ==
    /\ spc = "close"
    /\ LET log == mark_completed(run_log, Cardinality(successful_vessels),
                                 Len(failed_vessels), total_retry_attempts) IN
        /\ run_log' = log
        /\ runs' = [runs EXCEPT ![CurRun] = log]     \* log_run_completion
    /\ spc' = IF successful_vessels # {} THEN "workflow" ELSE "nodata"
    /\ UNCHANGED <<results, attempt, failed_vessels, vi, current_attempt_failed,
                   successful_vessels, total_retry_attempts, returned, queries>>
    /\ UNCHANGED notSchedVars

\* Lines 436-456: the orchestrator workflow is run and its result returned.
\* execute_daily_monitoring takes no argument: its first step,
\* _execute_data_collection_step (monitoring_orchestrator.py 233-298), calls
\* collect_all_vessels_metrics, which queries every configured vessel again
\* and keeps the metrics of those that answer; the later steps work on that
\* dictionary.  execute_daily_monitoring catches its own errors, also the
\* RuntimeError of an empty collection, and returns a result.
RunWorkflow ==
    /\ spc = "workflow"
    /\ spc' = "idle"
    /\ returned' = returned \cup {CurRun}
    /\ \E answered \in SUBSET Vessels :
        fleet_metrics' = [run_id |-> CurRun, queried |-> Vessels,
                          analysed |-> answered]
    /\ UNCHANGED <<runs, results, run_log, attempt, failed_vessels, vi,
                   current_attempt_failed, successful_vessels,
                   total_retry_attempts, queries>>
    /\ UNCHANGED notRunVars

\* Lines 457-466 followed by the handler of lines 468-476: with no
\* successful vessel the run is marked failed and persisted, RuntimeError is
\* raised, and the except clause marks it failed and persists it again.
NoDataFailure ==
    /\ spc = "nodata"
    /\ LET log1 == mark_failed(run_log, "no vessel data")
           log2 == mark_failed(log1, "no vessel data") IN
        /\ run_log' = log2
        /\ runs' = [runs EXCEPT ![CurRun] = log2]
    /\ spc' = "idle"
    /\ returned' = returned \cup {CurRun}
    /\ UNCHANGED <<results, attempt, failed_vessels, vi, current_attempt_failed,
                   successful_vessels, total_retry_attempts, queries>>
    /\ UNCHANGED notSchedVars

SchedNext ==
    \/ StartRun
    \/ QuerySuccess
    \/ QueryFailure
    \/ QueryHandlerRaises
    \/ EndAttempt
    \/ CloseRun
    \/ RunWorkflow
    \/ NoDataFailure

(***************************************************************************)
(* Scheduler: what the result rows say about a run                         *)
(***************************************************************************)
\* The VesselQueryResults of vessel v in run r, in recording order
ResultsOf(r, v) ==
    SelectSeq(results, LAMBDA x : x.run_id = r /\ x.vessel_id = v)

\* The collect_vessel_metrics calls made for vessel v in run r, in call order
QueriesOf(r, v) ==
    SelectSeq(queries, LAMBDA x : x.run_id = r /\ x.vessel_id = v)

EverSucceeded(r, v) ==
    \E i \in 1..Len(ResultsOf(r, v)) : ResultsOf(r, v)[i].success

\* v ended run r failed: its last attempt in the run was a failure
EndedFailed(r, v) ==
    LET s == ResultsOf(r, v) IN Len(s) > 0 /\ ~s[Len(s)].success

Closed(r) == r \in returned

\* Scenario 1 of the specification: 3 vessels, max 3 attempts, every query
\* of A (1) and C (3) succeeds and every query of B (2) fails with a timeout.
RetryExhaustionScenario(r) ==
    /\ Len(vessel_ids) = 3
    /\ max_retry_attempts = 3
    /\ \A v \in {1, 3} : \A i \in 1..Len(QueriesOf(r, v)) :
            QueriesOf(r, v)[i].success
    /\ Len(QueriesOf(r, 2)) > 0
    /\ \A i \in 1..Len(QueriesOf(r, 2)) :
            /\ ~QueriesOf(r, 2)[i].success
            /\ QueriesOf(r, 2)[i].error.kw = {"timeout"}

(***************************************************************************)
(* Claims about the scheduler run                                          *)
(***************************************************************************)
\* C1: every run that closes is recorded COMPLETED only if no vessel ended
\* the run failed, and is recorded FAILED whenever at least one vessel ended
\* the run failed or no vessel produced data.
C1_ClosedStatusMatchesVessels ==
    \A r \in 1..Len(runs) : Closed(r) =>
        /\ runs[r].status = "completed" =>
                \A v \in Vessels : ~EndedFailed(r, v)
        /\ ((\E v \in Vessels : EndedFailed(r, v))
             \/ (\A v \in Vessels : ~EverSucceeded(r, v)))
                => runs[r].status = "failed"

\* C2: when a run closes, its recorded successful count is the number of
\* vessels that succeeded in some attempt and its failed count the number of
\* vessels that never succeeded; in the retry exhaustion scenario the run
\* closes with successful=2, failed=1, retry_attempts=2 and status FAILED.
C2_ClosedCountsMatchVessels ==
    \A r \in 1..Len(runs) : Closed(r) =>
        /\ runs[r].successful_vessels =
                Cardinality({v \in Vessels : EverSucceeded(r, v)})
        /\ runs[r].failed_vessels =
                Cardinality({v \in Vessels : ~EverSucceeded(r, v)})
        /\ RetryExhaustionScenario(r) =>
                /\ runs[r].status = "failed"
                /\ runs[r].successful_vessels = 2
                /\ runs[r].failed_vessels = 1
                /\ runs[r].retry_attempts = 2

\* C3: a vessel whose probe returns HTTP 401 on attempt 1 is never queried
\* again in that run: the run holds exactly one VesselQueryResult for it,
\* with attempt number 1 and success = false.
C3_Http401NotRetried ==
    \A r \in 1..Len(runs) : \A v \in Vessels :
        LET q == QueriesOf(r, v)
            s == ResultsOf(r, v) IN
        (Len(q) > 0 /\ ~q[1].success /\ q[1].error.status = 401) =>
            /\ Len(q) = 1
            /\ Len(s) = 1
            /\ s[1].attempt_number = 1
            /\ ~s[1].success

\* The vessels for which collect_vessel_metrics was called at attempt k of
\* run r
QueriedAt(r, k) ==
    {queries[i].vessel_id : i \in {j \in 1..Len(queries) :
        queries[j].run_id = r /\ queries[j].attempt_number = k}}

\* The error classes the probe contract calls retryable: timeouts and
\* connection failures; AUTH (HTTP 401) and an invalid certificate are
\* permanent.
RetryableClass(error) ==
    error.status # 401 /\ error.type \in {"TimeoutError", "ConnectionError"}

FailedRetryablyAt(r, k) ==
    {queries[i].vessel_id : i \in {j \in 1..Len(queries) :
        /\ queries[j].run_id = r /\ queries[j].attempt_number = k
        /\ ~queries[j].success /\ RetryableClass(queries[j].error)}}

\* C16: in a run, for every attempt k < max_attempts the vessels queried at
\* attempt k+1 are exactly the vessels whose attempt-k query failed with a
\* retryable error; a vessel that succeeded or failed non-retryably at
\* attempt k is never queried again.
C16_NextAttemptIsRetryableFailures ==
    \A r \in 1..Len(runs) : Closed(r) =>
        \A k \in 1..(max_retry_attempts - 1) :
            QueriedAt(r, k + 1) = FailedRetryablyAt(r, k)

\* C17: within one run the VesselQueryResults of a vessel, in recording
\* order, carry the attempt numbers 1, 2, ..., m with no repeat and no gap,
\* and m never exceeds max_attempts.
C17_AttemptNumbersInOrder ==
    \A r \in 1..Len(runs) : \A v \in Vessels :
        LET s == ResultsOf(r, v) IN
        /\ Len(s) <= max_retry_attempts
        /\ \A i \in 1..Len(s) : s[i].attempt_number = i

\* A closed run in which one vessel used every attempt and another vessel
\* stopped after its first.
C17_Witness ==
    \E r \in returned : \E v, w \in Vessels :
        /\ Len(ResultsOf(r, v)) = max_retry_attempts
        /\ Len(ResultsOf(r, w)) = 1

\* C18: for every closed run and every vessel queried in it, the last
\* VesselQueryResult recorded for the vessel has success = true iff the
\* vessel is in the run's set of successful vessels.
C18_LastResultMatchesSuccessfulSet ==
    \A r \in 1..Len(runs) : Closed(r) =>
        \A v \in Vessels :
            LET s == ResultsOf(r, v) IN
            Len(s) > 0 =>
                (s[Len(s)].success <=> (r = CurRun /\ v \in successful_vessels))

\* A closed run with a vessel that failed first and succeeded on a retry,
\* and a vessel whose last result is a failure.
C18_Witness ==
    \E r \in returned : \E v, w \in Vessels :
        /\ Len(ResultsOf(r, v)) >= 2
        /\ ResultsOf(r, v)[Len(ResultsOf(r, v))].success
        /\ v \in successful_vessels
        /\ EndedFailed(r, w)
        /\ w \notin successful_vessels

\* C19: the retry_attempts recorded for a run is the sum over the attempts
\* k = 2..N of the number of vessels queried at attempt k.
C19_RetryAttemptsIsCarriedSum ==
    \A r \in 1..Len(runs) : Closed(r) =>
        runs[r].retry_attempts =
            Cardinality({i \in 1..Len(queries) :
                queries[i].run_id = r /\ queries[i].attempt_number >= 2})

\* C20: a failure of one vessel's query never aborts the run nor keeps
\* another vessel of the working set from being queried in that attempt;
\* the run aborts with an error only if no vessel produced data.
C20_VesselFailureIsIsolated ==
    \A r \in 1..Len(runs) : Closed(r) =>
        /\ QueriedAt(r, 1) = Vessels
        /\ runs[r].error_message # "none" =>
                \A v \in Vessels :
                    \A i \in 1..Len(QueriesOf(r, v)) : ~QueriesOf(r, v)[i].success

\* C23: for every SchedulerRun, in every state it passes through, both in
\* memory and as persisted, successful + failed is at most total_vessels.
C23_CountsWithinTotal ==
    /\ run_log.successful_vessels + run_log.failed_vessels
            <= run_log.total_vessels
    /\ \A r \in 1..Len(runs) :
            runs[r].successful_vessels + runs[r].failed_vessels
                <= runs[r].total_vessels

\* A run closed by mark_completed in which one vessel succeeded and another
\* failed at every attempt
C23_Witness ==
    \E r \in 1..Len(runs) :
        /\ Closed(r)
        /\ runs[r].ended
        /\ runs[r].successful_vessels >= 1
        /\ \E v \in Vessels :
                /\ EndedFailed(r, v)
                /\ Len(ResultsOf(r, v)) = max_retry_attempts

\* C36: a run is closed exactly once: once a terminal status (COMPLETED or
\* FAILED) is persisted for a run, no later step changes the persisted
\* status, counts or end of that run.
C36_RunClosedOnce ==
    [][ \A r \in 1..Len(runs) :
            runs[r].status \in {"completed", "failed"} => runs'[r] = runs[r] ]_vars

\* C37: the SLA, alert and ticket steps of a run work on exactly the
\* vessels recorded successful in the run's query phase: after the run is
\* closed no vessel is queried again, and no vessel recorded failed is
\* analysed.
C37_WorkflowUsesQueryPhaseMetrics ==
    fleet_metrics.run_id # 0 =>
        /\ fleet_metrics.queried = {}
        /\ fleet_metrics.analysed =
                {v \in Vessels : EverSucceeded(fleet_metrics.run_id, v)}

(***************************************************************************)
(* Scheduler: a run interrupted by the shutdown of the application         *)
(***************************************************************************)
\* ApplicationManager.shutdown_services while a run is executing: the
\* scheduler is shut down and ApplicationManager.run returns, so the event
\* loop ends and the coroutine of the run is cancelled at the await it is
\* suspended in.  asyncio.CancelledError is a BaseException: the handler
\* "except Exception" at scheduler.py line 468 does not catch it, so
\* neither mark_failed nor log_run_completion is executed.
shutdown_services ==
    /\ spc \in {"query", "close", "workflow", "nodata"}
    /\ spc' = "cancelled"
    /\ returned' = returned \cup {CurRun}
    /\ UNCHANGED <<runs, results, run_log, attempt, failed_vessels, vi,
                   current_attempt_failed, successful_vessels,
                   total_retry_attempts, queries>>
    /\ UNCHANGED notSchedVars

RunLifeNext ==
    \/ SchedNext
    \/ shutdown_services

\* C21: every SchedulerRun that has been persisted with status running is
\* eventually closed with status completed or failed, also when a step of
\* the run raises an error.
C21_OpenedRunIsEventuallyClosed ==
    \A r \in {1} :
        (Len(runs) >= r /\ runs[r].status = "running")
            ~> (Len(runs) >= r /\ runs[r].status \in {"completed", "failed"})

(***************************************************************************)
(* SLA tracking: SLAAnalyzer, the violation table and its cache            *)
(***************************************************************************)
\* enum ComponentType, in the order get_all_components lists the components
ComponentOrder == <<"access_point", "dashboard", "server">>

ComponentTypes == Range(ComponentOrder)

\* The ComponentStatus values a collection delivers: compliant, up but below
\* the threshold, and down for 30 hours.  Times are in hours.
ComponentStatuses ==
    { [uptime_percentage |-> 100, current_status |-> "up",   downtime_aging |-> 0],
      [uptime_percentage |-> 75,  current_status |-> "up",   downtime_aging |-> 0],
      [uptime_percentage |-> 0,   current_status |-> "down", downtime_aging |-> 30] }

\* SLAAnalyzer._check_sla_threshold
_check_sla_threshold(uptime_percentage) ==
    uptime_percentage >= uptime_threshold_percentage

\* SLAAnalyzer._calculate_violation_duration
_calculate_violation_duration(component_status) ==
    IF component_status.current_status # "up"
    THEN component_status.downtime_aging
    ELSE (monitoring_window_hours
            * (100 - component_status.uptime_percentage)) \div 100

\* SLAAnalyzer.analyze_component_sla_compliance; a violation_duration of
\* None is 0 here, which is how both of its readers treat it.
analyze_component_sla_compliance(component_status) ==
    LET is_compliant == _check_sla_threshold(component_status.uptime_percentage) IN
    [is_compliant |-> is_compliant,
     uptime_percentage |-> component_status.uptime_percentage,
     violation_duration |-> IF is_compliant THEN 0
                            ELSE _calculate_violation_duration(component_status)]

\* DatabaseService.record_sla_violation: the table after the INSERT; the new
\* row's id is the length of the table.  violation_end is <<>> for NULL.
record_sla_violation(table, vessel_id, component_type, violation_start, violation_duration, now) ==
    Append(table, [vessel_id |-> vessel_id,
                   component_type |-> component_type,
                   violation_start |-> violation_start,
                   violation_end |-> <<>>,
                   violation_duration |-> violation_duration,
                   is_resolved |-> FALSE,
                   created_at |-> now])

\* DatabaseService.resolve_sla_violation
resolve_sla_violation(table, violation_id, violation_end) ==
    IF violation_id \in 1..Len(table)
    THEN [table EXCEPT
            ![violation_id].violation_end = <<violation_end>>,
            ![violation_id].violation_duration =
                    violation_end - table[violation_id].violation_start,
            ![violation_id].is_resolved = TRUE]
    ELSE table

\* The entry of the cache for a component, as a set of at most one element
CacheEntries(cache, vessel_id, component_type) ==
    {e \in cache : e.vessel_id = vessel_id /\ e.component_type = component_type}

\* SLAAnalyzer._track_sla_violation_lifecycle on st = [table, cache]
_track_sla_violation_lifecycle(st, vessel_id, component_type, sla_status, timestamp) ==
    LET hit == CacheEntries(st.cache, vessel_id, component_type) IN
    IF ~sla_status.is_compliant
    THEN IF hit = {}
         THEN LET table == record_sla_violation(st.table, vessel_id, component_type,
                                timestamp - sla_status.violation_duration,
                                sla_status.violation_duration, timestamp)
              IN [table |-> table,
                  cache |-> st.cache \cup {[vessel_id |-> vessel_id,
                                            component_type |-> component_type,
                                            violation_id |-> Len(table)]}]
         ELSE st
    ELSE IF hit # {}
         THEN LET entry == CHOOSE e \in hit : TRUE IN
              [table |-> resolve_sla_violation(st.table, entry.violation_id, timestamp),
               cache |-> st.cache \ hit]
         ELSE st

\* The loop "for component_type, sla_status in sla_statuses.items()" of
\* analyze_vessel_sla_compliance_with_tracking, from component i on
RECURSIVE TrackComponents(_, _, _, _, _)
TrackComponents(st, vessel_id, metrics, timestamp, i) ==
    IF i > Len(ComponentOrder) THEN st
    ELSE TrackComponents(
            _track_sla_violation_lifecycle(st, vessel_id, ComponentOrder[i],
                analyze_component_sla_compliance(metrics[ComponentOrder[i]]),
                timestamp),
            vessel_id, metrics, timestamp, i + 1)

\* DatabaseService.record_component_status for every component of a vessel
StatusRows(vessel_id, metrics, timestamp) ==
    [i \in 1..Len(ComponentOrder) |->
        [vessel_id |-> vessel_id,
         component_type |-> ComponentOrder[i],
         uptime_percentage |-> metrics[ComponentOrder[i]].uptime_percentage,
         current_status |-> metrics[ComponentOrder[i]].current_status,
         timestamp |-> timestamp]]

SlaInit ==
    /\ sla_violation_history = <<>>
    /\ component_status_history = <<>>
    /\ _active_violations = {}
    /\ sla_pass = [pc |-> "idle", n |-> 0, queue |-> <<>>, timestamp |-> 0]
    /\ observed = [v \in Vessels, c \in ComponentTypes |->
                        [seen |-> FALSE, is_compliant |-> TRUE, timestamp |-> 0]]

(***************************************************************************)
(* SLA tracking: actions                                                   *)
(***************************************************************************)
\* The scheduler's daily run builds a new MonitoringOrchestrator
\* (scheduler.py line 441), whose constructor builds a new SLAAnalyzer with
\* an empty _active_violations; a restart of the process does the same.
\* The orchestrator then analyses the fleet, one day after the last pass.
StartPass ==
    /\ sla_pass.pc = "idle"
    /\ sla_pass.n < MaxPasses
    /\ _active_violations' = {}
    /\ sla_pass' = [pc |-> "analyze", n |-> sla_pass.n + 1,
                    queue |-> vessel_ids,
                    timestamp |-> sla_pass.timestamp + 24]
    /\ UNCHANGED <<sla_violation_history, component_status_history, observed>>
    /\ UNCHANGED notSlaVars

\* analyze_vessel_sla_compliance_with_tracking for the next vessel of
\* analyze_fleet_sla_compliance_with_tracking.  The table is capped at
\* MaxViolations rows.
AnalyzeVessel ==
    /\ sla_pass.pc = "analyze"
    /\ sla_pass.queue # <<>>
    /\ \E metrics \in [ComponentTypes -> ComponentStatuses] :
        LET vessel_id == Head(sla_pass.queue)
            timestamp == sla_pass.timestamp
            st == TrackComponents([table |-> sla_violation_history,
                                   cache |-> _active_violations],
                                  vessel_id, metrics, timestamp, 1)
        IN
        /\ Len(st.table) <= MaxViolations
        /\ component_status_history' =
                component_status_history \o StatusRows(vessel_id, metrics, timestamp)
        /\ sla_violation_history' = st.table
        /\ _active_violations' = st.cache
        /\ observed' = [v \in Vessels, c \in ComponentTypes |->
                IF v = vessel_id
                THEN [seen |-> TRUE,
                      is_compliant |->
                        analyze_component_sla_compliance(metrics[c]).is_compliant,
                      timestamp |-> timestamp]
                ELSE observed[v, c]]
    /\ sla_pass' = [sla_pass EXCEPT !.queue = Tail(@)]
    /\ UNCHANGED notSlaVars

\* The fleet analysis returns and the orchestrator is dropped with the run.
EndPass ==
    /\ sla_pass.pc = "analyze"
    /\ sla_pass.queue = <<>>
    /\ sla_pass' = [sla_pass EXCEPT !.pc = "idle"]
    /\ UNCHANGED <<sla_violation_history, component_status_history,
                   _active_violations, observed>>
    /\ UNCHANGED notSlaVars

SlaNext ==
    \/ StartPass
    \/ AnalyzeVessel
    \/ EndPass

(***************************************************************************)
(* Claims about SLA violation records                                      *)
(***************************************************************************)
\* The ids of the unresolved ViolationRecords of a component
Unresolved(v, c) ==
    {i \in 1..Len(sla_violation_history) :
        /\ sla_violation_history[i].vessel_id = v
        /\ sla_violation_history[i].component_type = c
        /\ ~sla_violation_history[i].is_resolved}

\* C4: across runs and restarts there is at most one unresolved
\* ViolationRecord per (vessel_id, role).
C4_OneUnresolvedPerComponent ==
    \A v \in Vessels, c \in ComponentTypes : Cardinality(Unresolved(v, c)) <= 1

\* C5: an unresolved ViolationRecord opened in an earlier run is closed when
\* its component is observed compliant in a later run: it is resolved, its
\* end is the observation time and its duration is end - start.
C5_EarlierViolationClosed ==
    \A i \in 1..Len(sla_violation_history) :
        LET r == sla_violation_history[i]
            o == observed[r.vessel_id, r.component_type]
        IN
        (o.seen /\ o.is_compliant /\ r.created_at < o.timestamp) =>
            /\ r.is_resolved
            /\ Len(r.violation_end) = 1
            /\ r.violation_end[1] > r.created_at
            /\ r.violation_end[1] <= o.timestamp
            /\ r.violation_duration = r.violation_end[1] - r.violation_start

\* C25: whenever an SLA analyzer has been started (a new analyzer is
\* constructed, nothing analysed yet), its violation cache holds exactly the
\* (vessel, role) pairs with an unresolved ViolationRecord in the store,
\* each mapped to the id of that record.
C25_CacheRebuiltAtStart ==
    (sla_pass.pc = "analyze" /\ sla_pass.queue = vessel_ids) =>
        \A v \in Vessels, c \in ComponentTypes :
            {e.violation_id : e \in CacheEntries(_active_violations, v, c)}
                = Unresolved(v, c)

\* SLAAnalyzer.analyze_vessel_sla_compliance_with_tracking as a function of
\* the store and the cache: the verdicts, the status rows inserted and the
\* violation lifecycle of every component
analyze_vessel_sla_compliance_with_tracking(st, vessel_id, metrics, timestamp) ==
    LET tracked == TrackComponents([table |-> st.sla_violation_history,
                                    cache |-> st._active_violations],
                                   vessel_id, metrics, timestamp, 1)
    IN
    [sla_statuses |-> [c \in ComponentTypes |->
                            analyze_component_sla_compliance(metrics[c])],
     component_status_history |->
        st.component_status_history \o StatusRows(vessel_id, metrics, timestamp),
     sla_violation_history |-> tracked.table,
     _active_violations |-> tracked.cache]

\* C26: processing the same VesselMetrics a second time with tracking
\* returns the verdicts of the first call and leaves the store as the
\* first call left it: no row added or changed, no violation opened or
\* closed.
C26_ReprocessingLeavesStore ==
    sla_pass.pc = "analyze" =>
        \A v \in Vessels, metrics \in [ComponentTypes -> ComponentStatuses] :
            LET first == analyze_vessel_sla_compliance_with_tracking(
                            [sla_violation_history |-> sla_violation_history,
                             component_status_history |-> component_status_history,
                             _active_violations |-> _active_violations],
                            v, metrics, sla_pass.timestamp)
                second == analyze_vessel_sla_compliance_with_tracking(
                            first, v, metrics, sla_pass.timestamp)
            IN
            /\ second.sla_statuses = first.sla_statuses
            /\ second.sla_violation_history = first.sla_violation_history
            /\ second.component_status_history = first.component_status_history

\* The violation table has been written in the current pass: a record was
\* opened or resolved at the timestamp of the pass
ViolationWrittenInPass ==
    \E i \in 1..Len(sla_violation_history) :
        \/ sla_violation_history[i].created_at = sla_pass.timestamp
        \/ sla_violation_history[i].violation_end = <<sla_pass.timestamp>>

\* C27: within one run every component-status insert of the run reaches
\* the store before any violation write derived from the run's data: no
\* step inserts status rows once a violation write of the run is stored.
C27_StatusInsertsBeforeViolationWrites ==
    [][(sla_pass.pc = "analyze"
            /\ Len(component_status_history') > Len(component_status_history))
        => ~ViolationWrittenInPass]_vars

(***************************************************************************)
(* Approval workflow: ApprovalWorkflow, its webhook callbacks, its cleanup *)
(* worker and the ticket workflow that waits for the decision.  The class  *)
(* holds no lock, so the threads interleave between its statements.        *)
(***************************************************************************)
RequestIds == 1..MaxRequests

CallbackIds == 1..NumCallbacks

\* The ids of a set of requests in dict order, which is creation order
RECURSIVE InOrder(_)
InOrder(S) ==
    IF S = {} THEN <<>>
    ELSE LET m == CHOOSE x \in S : \A y \in S : x <= y
         IN <<m>> \o InOrder(S \ {m})

\* ApprovalWorkflow.get_request_details: the request object is found while
\* its id is a key of either dict
get_request_details(request_id) ==
    IF request_id \in _pending_requests \cup _completed_requests
    THEN <<requests[request_id]>> ELSE <<>>

\* Whether a wait_for_approval for the request has returned TIMEOUT
WaitTimedOut(request_id) ==
    \/ /\ workflow.pc = "returned"
       /\ workflow.request_id = request_id
       /\ workflow.approval_status = "timeout"
    \/ \E w \in wf_results :
            w.request_id = request_id /\ w.approval_status = "timeout"

ApprovalInit ==
    /\ requests = <<>>
    /\ _pending_requests = {}
    /\ _completed_requests = {}
    /\ _approval_decisions = [i \in RequestIds |-> "none"]
    /\ callbacks = [t \in CallbackIds |->
            [pc |-> "idle", request_id |-> 0, approved |-> FALSE,
             seen_status |-> "none", after_timeout |-> FALSE, result |-> "none"]]
    /\ worker = [pc |-> "sleep", todo |-> <<>>, current_time |-> 0]
    /\ workflow = [pc |-> "idle", request_id |-> 0, max_wait_minutes |-> 0,
                   start_time |-> 0, approval_status |-> "none"]
    /\ wf_results = {}
    /\ applied = [i \in RequestIds |-> [statuses |-> <<>>, decisions |-> <<>>]]
    /\ clock = 0

\* ---- a webhook callback: handle_slack_interaction with action approve or
\* reject, which calls submit_approval_decision ----

\* Lines 240-243: the membership test and the fetch of the request.  An id
\* that is no key of _pending_requests raises ValueError, which
\* handle_slack_interaction turns into an error reply.
SubmitDecision(t) ==
    /\ callbacks[t].pc = "idle"
    /\ \E request_id \in RequestIds, approved \in BOOLEAN :
        LET call == [pc |-> "fetched", request_id |-> request_id,
                     approved |-> approved,
                     seen_status |-> IF request_id \in 1..Len(requests)
                                     THEN requests[request_id].status
                                     ELSE "unknown",
                     after_timeout |-> WaitTimedOut(request_id),
                     result |-> "none"]
        IN
        callbacks' = [callbacks EXCEPT ![t] =
            IF request_id \in _pending_requests THEN call
            ELSE [call EXCEPT !.pc = "idle", !.result = "ValueError"]]
    /\ UNCHANGED <<requests, _pending_requests, _completed_requests,
                   _approval_decisions, worker, workflow, wf_results,
                   applied, clock>>
    /\ UNCHANGED notApprovalVars

\* Lines 246-249: request.status = APPROVED or REJECTED
DecisionSetStatus(t) ==
    /\ callbacks[t].pc = "fetched"
    /\ LET request_id == callbacks[t].request_id
           status == IF callbacks[t].approved THEN "approved" ELSE "rejected"
       IN
        /\ requests' = [requests EXCEPT ![request_id].status = status]
        /\ applied' = [applied EXCEPT ![request_id].statuses = Append(@, status)]
    /\ callbacks' = [callbacks EXCEPT ![t].pc = "status_set"]
    /\ UNCHANGED <<_pending_requests, _completed_requests, _approval_decisions,
                   worker, workflow, wf_results, clock>>
    /\ UNCHANGED notApprovalVars

\* Lines 252-264: the decision record is built from request.status as it is
\* now, and both are stored in the completed dicts.
DecisionRecord(t) ==
    /\ callbacks[t].pc = "status_set"
    /\ LET request_id == callbacks[t].request_id
           decision == requests[request_id].status
       IN
        /\ _completed_requests' = _completed_requests \cup {request_id}
        /\ _approval_decisions' = [_approval_decisions EXCEPT ![request_id] = decision]
        /\ applied' = [applied EXCEPT ![request_id].decisions = Append(@, decision)]
    /\ callbacks' = [callbacks EXCEPT ![t].pc = "recorded"]
    /\ UNCHANGED <<requests, _pending_requests, worker, workflow, wf_results, clock>>
    /\ UNCHANGED notApprovalVars

\* Line 265: del self._pending_requests[request_id], a KeyError when another
\* thread has deleted the key already.
DecisionDelete(t) ==
    /\ callbacks[t].pc = "recorded"
    /\ LET request_id == callbacks[t].request_id IN
        /\ _pending_requests' = _pending_requests \ {request_id}
        /\ callbacks' = [callbacks EXCEPT
                ![t].pc = "idle",
                ![t].result = IF request_id \in _pending_requests
                              THEN "ok" ELSE "KeyError"]
    /\ UNCHANGED <<requests, _completed_requests, _approval_decisions, worker,
                   workflow, wf_results, applied, clock>>
    /\ UNCHANGED notApprovalVars

\* ---- the daemon thread _cleanup_worker: check_timeouts, then
\* _cleanup_old_requests, then a sleep ----

\* check_timeouts lines 292-296: current_time is read once and the loop runs
\* over a copy of the pending items.
CheckTimeoutsStart ==
    /\ worker.pc = "sleep"
    /\ worker' = [pc |-> "loop", todo |-> InOrder(_pending_requests),
                  current_time |-> clock]
    /\ UNCHANGED <<requests, _pending_requests, _completed_requests,
                   _approval_decisions, callbacks, workflow, wf_results,
                   applied, clock>>
    /\ UNCHANGED notApprovalVars

\* Lines 296-302: the threshold test on the next copied item, and
\* request.status = TIMEOUT when it is past its threshold.
CheckTimeoutsNext ==
    /\ worker.pc = "loop"
    /\ worker.todo # <<>>
    /\ LET request_id == Head(worker.todo)
           timeout_threshold == requests[request_id].requested_at
                                    + default_timeout_minutes
       IN
       IF worker.current_time > timeout_threshold
       THEN /\ requests' = [requests EXCEPT ![request_id].status = "timeout"]
            /\ applied' = [applied EXCEPT
                    ![request_id].statuses = Append(@, "timeout")]
            /\ worker' = [worker EXCEPT !.pc = "status_set"]
       ELSE /\ worker' = [worker EXCEPT !.todo = Tail(@)]
            /\ UNCHANGED <<requests, applied>>
    /\ UNCHANGED <<_pending_requests, _completed_requests, _approval_decisions,
                   callbacks, workflow, wf_results, clock>>
    /\ UNCHANGED notApprovalVars

\* Lines 305-316: the timeout decision is stored in the completed dicts.
TimeoutRecord ==
    /\ worker.pc = "status_set"
    /\ LET request_id == Head(worker.todo) IN
        /\ _completed_requests' = _completed_requests \cup {request_id}
        /\ _approval_decisions' = [_approval_decisions EXCEPT ![request_id] = "timeout"]
        /\ applied' = [applied EXCEPT
                ![request_id].decisions = Append(@, "timeout")]
    /\ worker' = [worker EXCEPT !.pc = "recorded"]
    /\ UNCHANGED <<requests, _pending_requests, callbacks, workflow,
                   wf_results, clock>>
    /\ UNCHANGED notApprovalVars

\* Line 317: del self._pending_requests[request_id]; a KeyError leaves
\* check_timeouts and is caught by _cleanup_worker, which sleeps.
TimeoutDelete ==
    /\ worker.pc = "recorded"
    /\ LET request_id == Head(worker.todo) IN
        /\ _pending_requests' = _pending_requests \ {request_id}
        /\ worker' = IF request_id \in _pending_requests
                     THEN [worker EXCEPT !.pc = "loop", !.todo = Tail(@)]
                     ELSE [worker EXCEPT !.pc = "sleep", !.todo = <<>>]
    /\ UNCHANGED <<requests, _completed_requests, _approval_decisions,
                   callbacks, workflow, wf_results, applied, clock>>
    /\ UNCHANGED notApprovalVars

\* The loop of check_timeouts is over: _cleanup_old_requests drops the
\* completed requests older than auto_cleanup_hours, and the thread sleeps.
CheckTimeoutsEnd ==
    /\ worker.pc = "loop"
    /\ worker.todo = <<>>
    /\ LET cutoff_time == clock - auto_cleanup_hours * 60
           old_request_ids == {i \in _completed_requests :
                                    requests[i].requested_at < cutoff_time}
       IN
        /\ _completed_requests' = _completed_requests \ old_request_ids
        /\ _approval_decisions' = [i \in RequestIds |->
                IF i \in old_request_ids THEN "none" ELSE _approval_decisions[i]]
    /\ worker' = [worker EXCEPT !.pc = "sleep"]
    /\ UNCHANGED <<requests, _pending_requests, callbacks, workflow,
                   wf_results, applied, clock>>
    /\ UNCHANGED notApprovalVars

\* ---- JIRAService.create_ticket_with_approval_workflow ----

\* request_ticket_approval -> submit_approval_request, and the first lines
\* of wait_for_approval.  timeout_minutes is None (0 here) from
\* TicketManager and 60 from the orchestrator.
RequestApproval ==
    /\ workflow.pc = "idle"
    /\ Len(requests) < MaxRequests
    /\ Cardinality(_pending_requests) < max_pending_requests
    /\ \E timeout_minutes \in {0, default_timeout_minutes} :
        LET request_id == Len(requests) + 1 IN
        /\ requests' = Append(requests,
                [status |-> "pending", requested_at |-> clock])
        /\ _pending_requests' = _pending_requests \cup {request_id}
        /\ workflow' = [pc |-> "waiting", request_id |-> request_id,
                        max_wait_minutes |-> timeout_minutes,
                        start_time |-> clock, approval_status |-> "none"]
    /\ UNCHANGED <<_completed_requests, _approval_decisions, callbacks, worker,
                   wf_results, applied, clock>>
    /\ UNCHANGED notApprovalVars

\* The iteration of the polling loop of wait_for_approval that returns: with
\* the request's status once it is not PENDING, else with TIMEOUT once
\* max_wait_minutes has passed.  Any other iteration only sleeps.
WaitReturns ==
    /\ workflow.pc = "waiting"
    /\ LET request == get_request_details(workflow.request_id) IN
        /\ request # <<>>
        /\ \/ /\ request[1].status # "pending"
              /\ workflow' = [workflow EXCEPT
                    !.pc = "returned", !.approval_status = request[1].status]
           \/ /\ request[1].status = "pending"
              /\ workflow.max_wait_minutes # 0
              /\ clock - workflow.start_time > workflow.max_wait_minutes
              /\ workflow' = [workflow EXCEPT
                    !.pc = "returned", !.approval_status = "timeout"]
    /\ UNCHANGED <<requests, _pending_requests, _completed_requests,
                   _approval_decisions, callbacks, worker, wf_results,
                   applied, clock>>
    /\ UNCHANGED notApprovalVars

\* approval_status == APPROVED: create_ticket is called on the tracker and
\* either returns the ticket or raises JIRAServiceError.
CreateTicket ==
    /\ workflow.pc = "returned"
    /\ workflow.approval_status = "approved"
    /\ \E created \in BOOLEAN :
        wf_results' = wf_results \cup
            {[request_id |-> workflow.request_id,
              approval_status |-> workflow.approval_status,
              ticket |-> IF created THEN "created" ELSE "error"]}
    /\ workflow' = [workflow EXCEPT !.pc = "idle"]
    /\ UNCHANGED <<requests, _pending_requests, _completed_requests,
                   _approval_decisions, callbacks, worker, applied, clock>>
    /\ UNCHANGED notApprovalVars

\* approval_status is REJECTED or TIMEOUT: None is returned, no tracker call.
ReturnNoTicket ==
    /\ workflow.pc = "returned"
    /\ workflow.approval_status # "approved"
    /\ wf_results' = wf_results \cup
            {[request_id |-> workflow.request_id,
              approval_status |-> workflow.approval_status,
              ticket |-> "none"]}
    /\ workflow' = [workflow EXCEPT !.pc = "idle"]
    /\ UNCHANGED <<requests, _pending_requests, _completed_requests,
                   _approval_decisions, callbacks, worker, applied, clock>>
    /\ UNCHANGED notApprovalVars

\* Time passes: up to the default timeout after the start, and from then on
\* by the sleep of the cleanup worker.  The sleeps of the threads are not
\* synchronised, so which of them wakes first after a tick is left open.
ApprovalTick ==
    /\ clock' = IF clock < default_timeout_minutes
                THEN default_timeout_minutes
                ELSE clock + cleanup_interval_minutes
    /\ clock' <= MaxClock
    /\ UNCHANGED <<requests, _pending_requests, _completed_requests,
                   _approval_decisions, callbacks, worker, workflow,
                   wf_results, applied>>
    /\ UNCHANGED notApprovalVars

ApprovalNext ==
    \/ \E t \in CallbackIds : SubmitDecision(t)
    \/ \E t \in CallbackIds : DecisionSetStatus(t)
    \/ \E t \in CallbackIds : DecisionRecord(t)
    \/ \E t \in CallbackIds : DecisionDelete(t)
    \/ CheckTimeoutsStart
    \/ CheckTimeoutsNext
    \/ TimeoutRecord
    \/ TimeoutDelete
    \/ CheckTimeoutsEnd
    \/ RequestApproval
    \/ WaitReturns
    \/ CreateTicket
    \/ ReturnNoTicket
    \/ ApprovalTick

(***************************************************************************)
(* Claims about the approval workflow                                      *)
(***************************************************************************)
\* No thread is still working on the request: its status is final
Settled(request_id) ==
    /\ request_id \in 1..Len(requests)
    /\ request_id \notin _pending_requests
    /\ \A t \in CallbackIds :
            callbacks[t].pc = "idle" \/ callbacks[t].request_id # request_id
    /\ request_id \notin Range(worker.todo)

\* C6: for every approval request at most one terminal transition is applied
\* and at most one decision is recorded, under any interleaving of the
\* webhook callbacks and the background timeout check.
C6_OneTerminalTransition ==
    \A i \in RequestIds :
        /\ Len(applied[i].statuses) <= 1
        /\ Len(applied[i].decisions) <= 1

\* C7: a decision submitted for a request that is not PENDING, or unknown,
\* fails with an error and changes neither the status nor the recorded
\* decision of the request.
C7_DecisionOnNonPendingFails ==
    \A t \in CallbackIds :
        callbacks[t].seen_status \notin {"none", "pending"} =>
            /\ callbacks[t].pc \notin {"status_set", "recorded"}
            /\ callbacks[t].pc = "idle" => callbacks[t].result = "ValueError"

\* C8: the tracker's create-ticket is called only after the approval request
\* is APPROVED, and for a request that ends REJECTED or TIMEOUT no ticket is
\* ever created.
C8_TicketOnlyForApproved ==
    \A w \in wf_results :
        w.ticket # "none" =>
            /\ w.approval_status = "approved"
            /\ Settled(w.request_id) =>
                    requests[w.request_id].status = "approved"

\* C9: whenever the workflow's wait returns TIMEOUT for a request, that
\* request is no longer PENDING and a later approve or reject of it fails.
C9_WaitTimeoutIsFinal ==
    \A i \in RequestIds :
        WaitTimedOut(i) =>
            /\ requests[i].status # "pending"
            /\ \A t \in CallbackIds :
                (callbacks[t].request_id = i /\ callbacks[t].after_timeout) =>
                    /\ callbacks[t].pc = "idle"
                    /\ callbacks[t].result = "ValueError"

\* C38: every request that reaches APPROVED is followed by a create-ticket
\* attempt of the workflow for its issue: no request ends APPROVED, with
\* no thread working on it any more, after the workflow that waited for it
\* has returned without calling the tracker.
C38_ApprovedIsActedOn ==
    \A i \in RequestIds :
        (/\ Settled(i)
         /\ requests[i].status = "approved"
         /\ \E w \in wf_results : w.request_id = i)
            => \E w \in wf_results : w.request_id = i /\ w.ticket # "none"

\* C40: in every state of the approval workflow the pending and the
\* completed requests are disjoint, every pending request has status
\* PENDING, and every completed request has a status other than PENDING
\* that equals the decision recorded for it.
C40_PendingAndCompletedConsistent ==
    /\ _pending_requests \cap _completed_requests = {}
    /\ \A i \in _pending_requests : requests[i].status = "pending"
    /\ \A i \in _completed_requests :
            /\ requests[i].status # "pending"
            /\ requests[i].status = _approval_decisions[i]

\* The tracker's create_ticket call failed after the request was approved
CreateFailed(request_id) ==
    \E res \in wf_results : res.request_id = request_id /\ res.ticket = "error"

\* C28: when the tracker's create-ticket call fails after a request was
\* APPROVED, the request stays APPROVED, and handling the failure submits
\* no other approval request for the issue.
C28_ApprovedStaysAfterCreateFailure ==
    [][/\ \A request_id \in RequestIds :
            CreateFailed(request_id)' =>
                requests'[request_id].status = "approved"
       /\ \A request_id \in RequestIds :
            (~CreateFailed(request_id) /\ CreateFailed(request_id)') =>
                /\ Len(requests') = Len(requests)
                /\ _pending_requests' = _pending_requests]_vars

(***************************************************************************)
(* Ticket store: TicketLifecycleManager and the duplicate prevention rule  *)
(***************************************************************************)
\* enum IssueSeverity: the values are the strings "low", "medium", ...
Severities == {"low", "medium", "high", "critical"}

\* The dict severity_order of check_for_duplicates
severity_order == [s \in Severities |->
    CASE s = "low" -> 1 [] s = "medium" -> 2 [] s = "high" -> 3 [] s = "critical" -> 4]

\* IssueSeverity is a str subclass, so Python compares two severities as the
\* strings they are: "critical" < "high" < "low" < "medium".
StringOrder == [s \in Severities |->
    CASE s = "critical" -> 1 [] s = "high" -> 2 [] s = "low" -> 3 [] s = "medium" -> 4]

\* max(...) over IssueSeverity values
max(S) == CHOOSE s \in S : \A t \in S : StringOrder[t] <= StringOrder[s]

\* DuplicatePreventionRule as TicketManager builds it
allow_severity_escalation == TRUE

\* The lifecycle statuses the SELECT of check_for_duplicates keeps
OpenStatuses == {"created", "linked_to_alert", "in_progress", "reopened"}

\* The components for which issues are raised in this model
IssueKeys == {<<1, "server">>, <<2, "server">>}

\* The rows the SELECT of check_for_duplicates returns, as a set of ids
SelectOpen(vessel_id, component_type, now) ==
    {i \in 1..Len(ticket_records) :
        /\ ticket_records[i].vessel_id = vessel_id
        /\ ticket_records[i].component_type = component_type
        /\ ticket_records[i].lifecycle_status \in OpenStatuses
        /\ ticket_records[i].created_at > now - time_window_hours}

\* ORDER BY created_at DESC; created_at grows with the id
RECURSIVE NewestFirst(_)
NewestFirst(S) ==
    IF S = {} THEN <<>>
    ELSE LET m == CHOOSE x \in S : \A y \in S : y <= x
         IN <<m>> \o NewestFirst(S \ {m})

\* TicketLifecycleManager.check_for_duplicates
check_for_duplicates(vessel_id, component_type, issue_severity, now) ==
    LET existing_tickets == NewestFirst(SelectOpen(vessel_id, component_type, now))
        max_existing_severity ==
            max({ticket_records[i].issue_severity : i \in Range(existing_tickets)})
    IN
    IF existing_tickets = <<>>
    THEN [is_duplicate |-> FALSE, existing |-> <<>>]
    ELSE IF Len(existing_tickets) >= max_tickets_per_component
    THEN [is_duplicate |-> TRUE, existing |-> existing_tickets]
    ELSE IF allow_severity_escalation
            /\ severity_order[issue_severity] > severity_order[max_existing_severity]
    THEN [is_duplicate |-> FALSE, existing |-> existing_tickets]
    ELSE [is_duplicate |-> TRUE, existing |-> existing_tickets]

\* TicketLifecycleManager.create_ticket_record
create_ticket_record(table, vessel_id, component_type, issue_severity, now) ==
    Append(table, [vessel_id |-> vessel_id, component_type |-> component_type,
                   issue_severity |-> issue_severity,
                   lifecycle_status |-> "created", created_at |-> now])

\* TicketLifecycleManager.link_ticket_to_alert for a new alert id
link_ticket_to_alert(table, ticket_key) ==
    IF ticket_key \in 1..Len(table)
    THEN [table EXCEPT ![ticket_key].lifecycle_status = "linked_to_alert"]
    ELSE table

DupInit ==
    /\ ticket_records = <<>>
    /\ dup_clock = 0

\* The issues offered to the ticket workflow in this model: three
\* severities for the first component, one severity for the second
IssueSummaries ==
    {<<1, "server", sev>> : sev \in {"low", "medium", "high"}}
        \cup {<<2, "server", "high">>}

\* TicketLifecycleManager.check_for_duplicates as
\* TicketManager.check_for_duplicates_with_rules returns it.  When reading
\* the table raises (store_raises), the except clause of check_for_duplicates
\* (lines 241-243) returns (False, []), and so does the except clause of
\* check_for_duplicates_with_rules (ticket_manager.py 199-201).
check_for_duplicates_with_rules(vessel_id, component_type, issue_severity, now, store_raises) ==
    IF store_raises
    THEN [is_duplicate |-> FALSE, existing |-> <<>>]
    ELSE check_for_duplicates(vessel_id, component_type, issue_severity, now)

\* TicketManager.create_ticket_with_approval from the result dup of the
\* duplicate check on: for a duplicate the link of the alert to the newest
\* existing ticket, else the approval workflow, whose result is a ticket
\* (ticket = TRUE) or None, the record of the ticket and its link to the
\* alert.  linked_to is the id of the record the alert was linked to, 0 for
\* none.
AfterDuplicateCheck(dup, vessel_id, component_type, issue_severity, has_alert, ticket) ==
    LET created == create_ticket_record(ticket_records, vessel_id,
                        component_type, issue_severity, dup_clock)
    IN
    IF dup.is_duplicate
    THEN IF has_alert /\ dup.existing # <<>>
         THEN [ticket_records |-> link_ticket_to_alert(ticket_records, dup.existing[1]),
               approval_requested |-> FALSE, created |-> FALSE,
               linked_to |-> dup.existing[1]]
         ELSE [ticket_records |-> ticket_records,
               approval_requested |-> FALSE, created |-> FALSE, linked_to |-> 0]
    ELSE IF ticket
    THEN IF has_alert
         THEN [ticket_records |-> link_ticket_to_alert(created, Len(created)),
               approval_requested |-> TRUE, created |-> TRUE,
               linked_to |-> Len(created)]
         ELSE [ticket_records |-> created,
               approval_requested |-> TRUE, created |-> TRUE, linked_to |-> 0]
    ELSE [ticket_records |-> ticket_records,
          approval_requested |-> TRUE, created |-> FALSE, linked_to |-> 0]

\* TicketManager.create_ticket_with_approval on the current table, the
\* table being readable
create_ticket_with_approval(vessel_id, component_type, issue_severity, has_alert, ticket) ==
    AfterDuplicateCheck(check_for_duplicates(vessel_id, component_type,
                                             issue_severity, dup_clock),
                        vessel_id, component_type, issue_severity, has_alert, ticket)

\* A call of TicketManager.create_ticket_with_approval.  The table is capped
\* at MaxTickets rows.
CreateTicketWithApproval ==
    \E issue \in IssueSummaries, has_alert \in BOOLEAN, ticket \in BOOLEAN,
       store_raises \in BOOLEAN :
        LET dup == check_for_duplicates_with_rules(issue[1], issue[2], issue[3],
                                                   dup_clock, store_raises)
            outcome == AfterDuplicateCheck(dup, issue[1], issue[2], issue[3],
                                           has_alert, ticket)
        IN
        /\ outcome.created => Len(ticket_records) < MaxTickets
        /\ ticket_records' = outcome.ticket_records
        /\ UNCHANGED dup_clock
        /\ UNCHANGED notDupVars

\* TicketLifecycleManager.update_ticket_lifecycle_status, as
\* TicketManager.update_ticket_status calls it when a tracker issue is
\* resolved or reopened
update_ticket_lifecycle_status ==
    \E ticket_key \in 1..Len(ticket_records),
       new_status \in {"resolved", "reopened"} :
        /\ new_status = "resolved" =>
                ticket_records[ticket_key].lifecycle_status \in OpenStatuses
        /\ new_status = "reopened" =>
                ticket_records[ticket_key].lifecycle_status = "resolved"
        /\ ticket_records' = [ticket_records EXCEPT
                ![ticket_key].lifecycle_status = new_status]
        /\ UNCHANGED dup_clock
        /\ UNCHANGED notDupVars

\* The length of the duplicate window passes.
DupTick ==
    /\ dup_clock + time_window_hours <= MaxDupClock
    /\ dup_clock' = dup_clock + time_window_hours
    /\ UNCHANGED ticket_records
    /\ UNCHANGED notDupVars

DupNext ==
    \/ CreateTicketWithApproval
    \/ update_ticket_lifecycle_status
    \/ DupTick

(***************************************************************************)
(* Claims about the duplicate check                                        *)
(***************************************************************************)
\* The open TicketRecords of a component inside the window, by the words of
\* the rule
OpenInWindow(vessel_id, component_type) ==
    {i \in 1..Len(ticket_records) :
        /\ ticket_records[i].vessel_id = vessel_id
        /\ ticket_records[i].component_type = component_type
        /\ ticket_records[i].lifecycle_status \notin {"resolved", "closed"}
        /\ dup_clock - ticket_records[i].created_at < time_window_hours}

\* C10: the duplicate check rejects an offered issue iff at least one open
\* TicketRecord exists for its (vessel, role) in the window and either the
\* count has reached max_tickets_per_component or the offered severity is
\* not strictly higher (LOW < MEDIUM < HIGH < CRITICAL) than the highest
\* open severity.
C10_DuplicateRule ==
    \A key \in IssueKeys, offered \in Severities :
        LET open == OpenInWindow(key[1], key[2]) IN
        check_for_duplicates(key[1], key[2], offered, dup_clock).is_duplicate
        <=> /\ open # {}
            /\ \/ Cardinality(open) >= max_tickets_per_component
               \/ ~(\A i \in open : severity_order[offered]
                        > severity_order[ticket_records[i].issue_severity])

\* C11: for each (vessel, role) the open TicketRecords created within one
\* duplicate window have pairwise distinct severities, each later-created
\* one strictly higher than every earlier-created one; so without an
\* escalation there is at most one open ticket per (vessel, role).
C11_OpenTicketsStrictlyEscalate ==
    \A key \in IssueKeys :
        \A i, j \in OpenInWindow(key[1], key[2]) :
            i < j => severity_order[ticket_records[j].issue_severity]
                        > severity_order[ticket_records[i].issue_severity]

\* The TicketRecords of a component created inside the window, whatever
\* their status
CreatedInWindow(vessel_id, component_type) ==
    {i \in 1..Len(ticket_records) :
        /\ ticket_records[i].vessel_id = vessel_id
        /\ ticket_records[i].component_type = component_type
        /\ dup_clock - ticket_records[i].created_at < time_window_hours}

\* C12: in any 24h window the number of tickets created for a (vessel,
\* role) does not exceed max_tickets_per_component, except for escalation
\* tickets: a ticket created when max_tickets_per_component tickets of the
\* window already exist is strictly higher in severity than all of them.
C12_CreatedInWindowBounded ==
    \A key \in IssueKeys :
        LET W == CreatedInWindow(key[1], key[2]) IN
        \A j \in W :
            Cardinality({i \in W : i < j}) >= max_tickets_per_component =>
                \A i \in W : i < j =>
                    severity_order[ticket_records[j].issue_severity]
                        > severity_order[ticket_records[i].issue_severity]

\* C13: when an alert for a (vessel, role) that has an open ticket in the
\* window is processed at a severity that is not an escalation, no ticket
\* and no approval request is created and the alert is linked to the
\* newest existing open ticket of the (vessel, role).
C13_DuplicateAlertIsLinked ==
    \A key \in IssueKeys, offered \in Severities, ticket \in BOOLEAN :
        LET open == OpenInWindow(key[1], key[2])
            newest == CHOOSE i \in open : \A j \in open : j <= i
            outcome == create_ticket_with_approval(key[1], key[2], offered,
                                                   TRUE, ticket)
        IN
        (/\ open # {}
         /\ \E i \in open : severity_order[offered]
                <= severity_order[ticket_records[i].issue_severity])
        => /\ ~outcome.created
           /\ ~outcome.approval_requested
           /\ outcome.linked_to = newest

\* C39: when the duplicate check cannot read the ticket store, the
\* workflow neither requests approval nor creates a ticket for the issue;
\* stated for the issues that have an open ticket of their severity in the
\* window, where going on files a duplicate.
C39_StoreErrorStopsWorkflow ==
    \A issue \in IssueSummaries, has_alert \in BOOLEAN, ticket \in BOOLEAN :
        LET dup == check_for_duplicates_with_rules(issue[1], issue[2], issue[3],
                                                   dup_clock, TRUE)
            outcome == AfterDuplicateCheck(dup, issue[1], issue[2], issue[3],
                                           has_alert, ticket)
        IN
        (\E i \in OpenInWindow(issue[1], issue[2]) :
            ticket_records[i].issue_severity = issue[3])
        => /\ ~outcome.approval_requested
           /\ ~outcome.created

(***************************************************************************)
(* Run triggers: the schedulers of the process and the run-now endpoint    *)
(***************************************************************************)
\* The MonitoringScheduler objects of the process: main.py builds one
\* (ApplicationManager.scheduler) and create_app builds its own
\* (monitoring_scheduler), each with its own AsyncIOScheduler.
Schedulers == {"main", "web"}

\* The rows of scheduler_runs with status running
RunningRuns == {i \in 1..Len(scheduler_runs) : scheduler_runs[i].status = "running"}

TrigInit ==
    /\ _is_running = [s \in Schedulers |-> FALSE]
    /\ next_run_time = [s \in Schedulers |-> FALSE]
    /\ _instances = [s \in Schedulers |-> 0]
    /\ scheduler_runs = <<>>

\* MonitoringScheduler.start: the APScheduler is started and the job
\* daily_monitoring is added with its cron trigger.
start(is_running, s) == [is_running EXCEPT ![s] = TRUE]

\* ApplicationManager.start_services: the agent's scheduler is started, then
\* the web application is created and served.
start_services ==
    /\ ~_is_running["main"]
    /\ _is_running' = start(_is_running, "main")
    /\ UNCHANGED <<next_run_time, _instances, scheduler_runs>>
    /\ UNCHANGED notTrigVars

\* The time of the cron trigger comes: the job of every started scheduler
\* is due (coalesce=True: a job already due stays due once).
CronTriggerFires ==
    /\ \E s \in Schedulers : _is_running[s]
    /\ next_run_time' = [s \in Schedulers |-> next_run_time[s] \/ _is_running[s]]
    /\ UNCHANGED <<_is_running, _instances, scheduler_runs>>
    /\ UNCHANGED notTrigVars

\* POST /api/scheduler/trigger: the web application's scheduler is started
\* if it is not running, then trigger_job_now("daily_monitoring") sets the
\* next run time of its job to now.
trigger_scheduler_run ==
    /\ _is_running["main"]
    /\ _is_running' = IF ~_is_running["web"] THEN start(_is_running, "web")
                      ELSE _is_running
    /\ next_run_time' = [next_run_time EXCEPT !["web"] = TRUE]
    /\ UNCHANGED <<_instances, scheduler_runs>>
    /\ UNCHANGED notTrigVars

\* The scheduler s submits its due job to its executor.  With max_instances
\* running instances of the job in this scheduler the execution is skipped;
\* otherwise _execute_daily_monitoring_workflow starts and log_run_start
\* inserts the run with status running.
SubmitJob(s) ==
    /\ _is_running[s]
    /\ next_run_time[s]
    /\ next_run_time' = [next_run_time EXCEPT ![s] = FALSE]
    /\ IF _instances[s] >= max_instances
       THEN UNCHANGED <<_instances, scheduler_runs>>
       ELSE /\ Len(scheduler_runs) < MaxRuns
            /\ _instances' = [_instances EXCEPT ![s] = @ + 1]
            /\ scheduler_runs' = Append(scheduler_runs,
                    [scheduler |-> s, status |-> "running"])
    /\ UNCHANGED _is_running
    /\ UNCHANGED notTrigVars

\* The run of scheduler s ends: log_run_completion stores its final status.
RunEnds(s) ==
    /\ _instances[s] > 0
    /\ \E i \in RunningRuns, status \in {"completed", "failed"} :
        /\ scheduler_runs[i].scheduler = s
        /\ scheduler_runs' = [scheduler_runs EXCEPT ![i].status = status]
    /\ _instances' = [_instances EXCEPT ![s] = @ - 1]
    /\ UNCHANGED <<_is_running, next_run_time>>
    /\ UNCHANGED notTrigVars

TrigNext ==
    \/ start_services
    \/ CronTriggerFires
    \/ trigger_scheduler_run
    \/ \E s \in Schedulers : SubmitJob(s)
    \/ \E s \in Schedulers : RunEnds(s)

\* C15: at no time are two monitoring runs executing concurrently, whether
\* started by the daily trigger or by the manual run-now API: at most one
\* row of scheduler_runs is running.
C15_AtMostOneRunning ==
    Cardinality(RunningRuns) <= 1

(***************************************************************************)
(* Daily workflow: the ticket creation step of MonitoringOrchestrator      *)
(***************************************************************************)
\* The statuses of a tracker issue (enum TicketStatus)
TicketStatuses == {"Open", "In Progress", "Resolved", "Closed", "Reopened"}

\* The values of downtime_aging_hours the alerts of this model carry:
\* 4 days and 7 days
DowntimeHours == {96, 168}

\* _create_issue_summary_from_alert: the severity of the IssueSummary
_create_issue_summary_from_alert(alert) ==
    [vessel_id |-> alert.vessel_id,
     component_type |-> alert.component_type,
     severity |-> IF alert.downtime_aging_hours >= 168 THEN "critical"
                  ELSE IF alert.downtime_aging_hours >= 72 THEN "high"
                  ELSE "medium"]

\* jira_service.search_existing_tickets(vessel_id, component_type, None)
\* filtered as the step filters it: the open issues of the component
open_tickets(vessel_id, component_type) ==
    {i \in 1..Len(jira_issues) :
        /\ jira_issues[i].vessel_id = vessel_id
        /\ jira_issues[i].component_type = component_type
        /\ jira_issues[i].status \in {"Open", "In Progress", "Reopened"}}

\* MonitoringOrchestrator._create_ticket_with_approval.  The orchestrator
\* builds its manager as ApprovalWorkflowManager(config), so the manager's
\* workflow attribute is the Config object: request_ticket_approval raises
\* AttributeError on workflow.submit_approval_request before any request is
\* stored, create_ticket_with_approval_workflow wraps it in JIRAServiceError
\* and _create_ticket_with_approval catches it and returns None.
_create_ticket_with_approval(issue_summary) ==
    [approval_requested |-> FALSE, approval_status |-> "none", ticket |-> "none"]

StepInit ==
    /\ jira_issues = <<>>
    /\ persistent_alerts = <<>>
    /\ step_log = <<>>

\* alert_manager.monitor_persistent_downtime: a PERSISTENT_DOWNTIME alert
\* for a component that has been down for the threshold or longer.
monitor_persistent_downtime ==
    /\ Len(step_log) + Len(persistent_alerts) < MaxAlerts
    /\ \E key \in IssueKeys, hours \in DowntimeHours :
        persistent_alerts' = Append(persistent_alerts,
            [id |-> Len(step_log) + Len(persistent_alerts) + 1,
             vessel_id |-> key[1], component_type |-> key[2],
             downtime_aging_hours |-> hours])
    /\ UNCHANGED <<jira_issues, step_log>>
    /\ UNCHANGED notStepVars

\* One iteration of the loop of _execute_ticket_creation_step.
_execute_ticket_creation_step ==
    /\ persistent_alerts # <<>>
    /\ LET alert == Head(persistent_alerts)
           found == open_tickets(alert.vessel_id, alert.component_type)
           issue_summary == _create_issue_summary_from_alert(alert)
           outcome == IF found # {}
                      THEN [approval_requested |-> FALSE,
                            approval_status |-> "none", ticket |-> "none"]
                      ELSE _create_ticket_with_approval(issue_summary)
       IN
       step_log' = Append(step_log,
            [alert |-> alert,
             severity |-> issue_summary.severity,
             open_severities |-> {jira_issues[i].severity : i \in found},
             open_count |-> Cardinality(found),
             approval_requested |-> outcome.approval_requested,
             approval_status |-> outcome.approval_status,
             ticket |-> outcome.ticket])
    /\ persistent_alerts' = Tail(persistent_alerts)
    /\ UNCHANGED jira_issues
    /\ UNCHANGED notStepVars

\* An issue for a component is filed in the tracker project by another
\* client of the tracker (TicketManager, a person).
IssueFiled ==
    /\ Len(jira_issues) < MaxIssues
    /\ \E key \in IssueKeys, severity \in {"medium", "high"} :
        jira_issues' = Append(jira_issues,
            [vessel_id |-> key[1], component_type |-> key[2],
             status |-> "Open", severity |-> severity])
    /\ UNCHANGED <<persistent_alerts, step_log>>
    /\ UNCHANGED notStepVars

\* An issue moves to another status in the tracker.
IssueTransition ==
    /\ \E i \in 1..Len(jira_issues), status \in TicketStatuses :
        /\ status # jira_issues[i].status
        /\ jira_issues' = [jira_issues EXCEPT ![i].status = status]
    /\ UNCHANGED <<persistent_alerts, step_log>>
    /\ UNCHANGED notStepVars

StepNext ==
    \/ monitor_persistent_downtime
    \/ _execute_ticket_creation_step
    \/ IssueFiled
    \/ IssueTransition

\* C14: in the daily workflow, with one open ticket of severity HIGH for a
\* component in the window and a new persistent downtime alert of 7 days or
\* more (severity CRITICAL) for it, an approval request is submitted and,
\* on APPROVED, a new ticket is created and linked to the alert.
C14_EscalationInDailyWorkflow ==
    \A i \in 1..Len(step_log) :
        (/\ step_log[i].open_count = 1
         /\ step_log[i].open_severities = {"high"}
         /\ step_log[i].severity = "critical")
        => /\ step_log[i].approval_requested
           /\ step_log[i].approval_status = "approved" =>
                    step_log[i].ticket # "none"

(***************************************************************************)
(* Fleet collection: DataCollector.collect_all_vessels_metrics             *)
(***************************************************************************)
\* The vessels of one fleet collection
FleetVessels == 1..FleetSize

FleetInit ==
    /\ fleet_pc = "idle"
    /\ semaphore = 0
    /\ tasks = [v \in FleetVessels |-> "done"]

\* collect_all_vessels_metrics up to asyncio.gather (lines 206-226): a new
\* semaphore is made for the call and one task per vessel is created.
collect_all_vessels_metrics ==
    /\ fleet_pc = "idle"
    /\ semaphore' = max_concurrent_vessels
    /\ tasks' = [v \in FleetVessels |-> "waiting"]
    /\ fleet_pc' = "gather"
    /\ UNCHANGED notFleetVars

\* Entering "async with semaphore" without waiting for a free slot
Acquire_WithoutWaiting(v) ==
    /\ fleet_pc = "gather"
    /\ tasks[v] = "waiting"
    /\ semaphore' = semaphore - 1
    /\ tasks' = [tasks EXCEPT ![v] = "probing"]
    /\ UNCHANGED fleet_pc
    /\ UNCHANGED notFleetVars

\* collect_with_semaphore enters "async with semaphore" (line 214): the
\* task waits until the counter is positive and decrements it.
Acquire(v) ==
    /\ fleet_pc = "gather"
    /\ tasks[v] = "waiting"
    /\ semaphore > 0
    /\ semaphore' = semaphore - 1
    /\ tasks' = [tasks EXCEPT ![v] = "probing"]
    /\ UNCHANGED fleet_pc
    /\ UNCHANGED notFleetVars

\* collect_with_semaphore leaves "async with semaphore": either
\* collect_vessel_metrics returned the metrics (lines 216-217) or it raised
\* and the except clause of lines 218-220 returned (vessel_id, None).  On
\* both paths the block is left normally and the semaphore is released; the
\* tuple handed to gather does not bear on the admission of other tasks.
ProbeEnds(v) ==
    /\ fleet_pc = "gather"
    /\ tasks[v] = "probing"
    /\ semaphore' = semaphore + 1
    /\ tasks' = [tasks EXCEPT ![v] = "done"]
    /\ UNCHANGED fleet_pc
    /\ UNCHANGED notFleetVars

\* asyncio.gather returns when every task is done; the results are
\* processed and the call returns (lines 226-253).
GatherReturns ==
    /\ fleet_pc = "gather"
    /\ \A v \in FleetVessels : tasks[v] = "done"
    /\ fleet_pc' = "idle"
    /\ UNCHANGED <<semaphore, tasks>>
    /\ UNCHANGED notFleetVars

FleetNext ==
    \/ collect_all_vessels_metrics
    \/ \E v \in FleetVessels : Acquire(v)
    \/ \E v \in FleetVessels : ProbeEnds(v)
    \/ GatherReturns

\* The vessel probes in flight: the tasks inside collect_vessel_metrics
InFlight == {v \in FleetVessels : tasks[v] = "probing"}

\* C22: during a fleet collection the number of vessel probes in flight is
\* at every instant at most the parallelism cap max_concurrent_vessels,
\* also when there are more vessels than the cap.
C22_InFlightAtMostCap == Cardinality(InFlight) <= max_concurrent_vessels

\* The cap is reached while another vessel is waiting to be admitted
C22_Witness ==
    /\ FleetSize > max_concurrent_vessels
    /\ Cardinality(InFlight) = max_concurrent_vessels
    /\ \E v \in FleetVessels : tasks[v] = "waiting"

(***************************************************************************)
(* Retention of the run log: SchedulerRunLogger and its two tables         *)
(***************************************************************************)
\* Ids are uuid4 values; the model numbers the runs in the order they start
\* and the result rows by their AUTOINCREMENT id.
RetentionInit ==
    /\ store_runs = {}
    /\ scheduler_vessel_results = {}
    /\ executing = {}
    /\ store_now = 0
    /\ cleaned = {}

\* The run ids handed out so far
StartedRuns == {run.id : run \in store_runs} \cup executing
                    \cup {res.run_id : res \in scheduler_vessel_results}
                    \cup {res.run_id : res \in cleaned}

\* The result ids handed out so far
InsertedResults ==
    {res.id : res \in scheduler_vessel_results} \cup {res.id : res \in cleaned}

\* _execute_enhanced_monitoring_with_retry lines 408-414 with
\* SchedulerRunLogger.log_run_start: the row is inserted with the start
\* time of the run.  When the INSERT fails the exception leaves the handler
\* before any query is made.
log_run_start ==
    /\ Cardinality(StartedRuns) < MaxStoreRuns
    /\ LET run_id == Cardinality(StartedRuns) + 1 IN
        /\ store_runs' = store_runs \cup
                {[id |-> run_id, start_time |-> store_now, status |-> "running"]}
        /\ executing' = executing \cup {run_id}
    /\ UNCHANGED <<scheduler_vessel_results, store_now, cleaned>>
    /\ UNCHANGED notRetentionVars

\* SchedulerRunLogger.log_vessel_query_result as the retry loop of a run
\* calls it (scheduler.py lines 526 and 552): one row with the run's id.
log_vessel_query_result ==
    /\ Cardinality(InsertedResults) < MaxStoreResults
    /\ \E run_id \in executing :
        scheduler_vessel_results' = scheduler_vessel_results \cup
            {[id |-> Cardinality(InsertedResults) + 1, run_id |-> run_id]}
    /\ UNCHANGED <<store_runs, executing, store_now, cleaned>>
    /\ UNCHANGED notRetentionVars

\* The end of a run: log_run_completion updates the row of the run, or the
\* run is cancelled and its row keeps the status running.
log_run_completion ==
    /\ \E run_id \in executing, status \in {"completed", "failed", "running"} :
        /\ store_runs' = {IF run.id = run_id
                          THEN [run EXCEPT !.status = status] ELSE run :
                          run \in store_runs}
        /\ executing' = executing \ {run_id}
    /\ UNCHANGED <<scheduler_vessel_results, store_now, cleaned>>
    /\ UNCHANGED notRetentionVars

\* The rows the two DELETE statements of cleanup_old_runs select
OldRuns(cutoff_date) == {run \in store_runs : run.start_time < cutoff_date}

\* cleanup_old_runs deleting the runs only
cleanup_old_runs_KeepsResults ==
    /\ LET cutoff_date == store_now - days_to_keep IN
        /\ store_runs' = store_runs \ OldRuns(cutoff_date)
        /\ UNCHANGED <<scheduler_vessel_results, cleaned>>
    /\ UNCHANGED <<executing, store_now>>
    /\ UNCHANGED notRetentionVars

\* SchedulerRunLogger.cleanup_old_runs: in one transaction the result rows
\* of the runs older than the cutoff are deleted, then the runs themselves.
\* When a statement fails _get_connection rolls the transaction back and
\* both tables keep their rows.
cleanup_old_runs ==
    /\ \E committed \in BOOLEAN :
        LET cutoff_date == store_now - days_to_keep
            old_results == {res \in scheduler_vessel_results :
                \E run \in OldRuns(cutoff_date) : run.id = res.run_id}
        IN
        IF committed
        THEN /\ scheduler_vessel_results' = scheduler_vessel_results \ old_results
             /\ store_runs' = store_runs \ OldRuns(cutoff_date)
             /\ cleaned' = cleaned \cup old_results
        ELSE UNCHANGED <<scheduler_vessel_results, store_runs, cleaned>>
    /\ UNCHANGED <<executing, store_now>>
    /\ UNCHANGED notRetentionVars

\* Time passes between runs.  A run takes minutes (three attempts, each
\* query bounded by the connection timeout), the retention period is
\* days_to_keep days, so no run is executing across a period.
RetentionTick ==
    /\ executing = {}
    /\ store_now + days_to_keep <= MaxStoreDays
    /\ store_now' = store_now + days_to_keep
    /\ UNCHANGED <<store_runs, scheduler_vessel_results, executing, cleaned>>
    /\ UNCHANGED notRetentionVars

RetentionNext ==
    \/ log_run_start
    \/ log_vessel_query_result
    \/ log_run_completion
    \/ cleanup_old_runs
    \/ RetentionTick

\* C24: in every state of the store, also after the retention cleanup,
\* the run_id of every persisted VesselQueryResult is the id of a row of
\* scheduler_runs.
C24_ResultsReferenceRuns ==
    \A res \in scheduler_vessel_results :
        \E run \in store_runs : run.id = res.run_id

\* The cleanup has deleted a run with its result rows while the results of
\* a younger run are kept
C24_Witness ==
    /\ cleaned # {}
    /\ scheduler_vessel_results # {}
    /\ \A res \in cleaned : ~\E run \in store_runs : run.id = res.run_id

(***************************************************************************)
(* Schema migration: DatabaseMigration                                     *)
(***************************************************************************)
\* DatabaseMigration._get_migrations: each migration with the tables its
\* CREATE TABLE IF NOT EXISTS statements create, in the order of the list
migrations ==
    << [version |-> 1,
        sql |-> <<"schema_version", "sla_violation_history",
                  "component_status_history", "alert_history">>],
       [version |-> 2, sql |-> <<"jira_tickets">>],
       [version |-> 3, sql |-> <<"system_state">>],
       [version |-> 4, sql |-> <<"scheduler_runs", "scheduler_vessel_results">>] >>

\* max(m['version'] for m in self.migrations)
latest_version ==
    CHOOSE v \in {migrations[i].version : i \in DOMAIN migrations} :
        \A i \in DOMAIN migrations : migrations[i].version <= v

\* DatabaseMigration.get_current_version: SELECT MAX(version), 0 when the
\* table is empty or does not exist
get_current_version ==
    IF "schema_version" \notin db_tables \/ schema_version = {}
    THEN 0
    ELSE CHOOSE v \in schema_version : \A w \in schema_version : w <= v

\* The next migration of the loop of migrate_to_latest from index i on whose
\* version is greater than current_version; Len(migrations) + 1 when the
\* loop ends
RECURSIVE NextMigration(_, _)
NextMigration(i, current_version) ==
    IF i > Len(migrations) THEN i
    ELSE IF migrations[i].version > current_version THEN i
    ELSE NextMigration(i + 1, current_version)

MigrationInit ==
    /\ db_tables = {}
    /\ schema_version = {}
    /\ migrating = [pc |-> "idle", calls |-> 0, current_version |-> 0,
                    mi |-> 0, si |-> 0]
    /\ migrated = [c |-> 0, applied |-> <<>>,
                   before |-> [db_tables |-> {}, schema_version |-> {}]]

\* migrate_to_latest applying every migration whose version is at least the
\* current version
migrate_to_latest_FromCurrentVersion ==
    /\ migrating.pc \in {"idle", "returned", "raised"}
    /\ migrating.calls < MaxMigrateCalls
    /\ LET current_version == get_current_version
           first == NextMigration(1, current_version - 1)
       IN
       /\ migrating' = [pc |-> IF first > Len(migrations)
                               THEN "returned" ELSE "apply",
                        calls |-> migrating.calls + 1,
                        current_version |-> current_version - 1,
                        mi |-> first, si |-> 1]
       /\ migrated' = [c |-> get_current_version, applied |-> <<>>,
                       before |-> [db_tables |-> db_tables,
                                   schema_version |-> schema_version]]
    /\ UNCHANGED <<db_tables, schema_version>>
    /\ UNCHANGED notMigrationVars

\* DatabaseService._initialize_database constructs a DatabaseMigration and
\* calls migrate_to_latest (database.py lines 53-54); this is the head of
\* migrate_to_latest, lines 240-254: the version is read, and either the
\* call returns at once or the loop reaches its first migration.
migrate_to_latest ==
    /\ migrating.pc \in {"idle", "returned", "raised"}
    /\ migrating.calls < MaxMigrateCalls
    /\ LET current_version == get_current_version
           first == IF current_version >= latest_version
                    THEN Len(migrations) + 1
                    ELSE NextMigration(1, current_version)
       IN
       /\ migrating' = [pc |-> IF first > Len(migrations)
                               THEN "returned" ELSE "apply",
                        calls |-> migrating.calls + 1,
                        current_version |-> current_version,
                        mi |-> first, si |-> 1]
       /\ migrated' = [c |-> get_current_version, applied |-> <<>>,
                       before |-> [db_tables |-> db_tables,
                                   schema_version |-> schema_version]]
    /\ UNCHANGED <<db_tables, schema_version>>
    /\ UNCHANGED notMigrationVars

\* apply_migration, one cursor.execute(sql) of the loop at lines 218-219.
\* The sqlite3 module opens a transaction only before INSERT, UPDATE,
\* DELETE and REPLACE, so a CREATE TABLE statement runs in autocommit mode
\* and is durable as soon as it returns.  When the statement fails the
\* handler calls conn.rollback(), which has no open transaction to undo,
\* and raises; migrate_to_latest does not catch the exception.
ExecuteSql ==
    /\ migrating.pc = "apply"
    /\ migrating.si <= Len(migrations[migrating.mi].sql)
    /\ \E ok \in BOOLEAN :
        IF ok
        THEN /\ db_tables' = db_tables \cup {migrations[migrating.mi].sql[migrating.si]}
             /\ migrating' = [migrating EXCEPT !.si = @ + 1]
        ELSE /\ migrating' = [migrating EXCEPT !.pc = "raised"]
             /\ UNCHANGED db_tables
    /\ UNCHANGED <<schema_version, migrated>>
    /\ UNCHANGED notMigrationVars

\* apply_migration, lines 221-228: INSERT OR REPLACE INTO schema_version
\* and commit; then the loop of migrate_to_latest goes on to the next
\* migration, and after the last one _create_indexes runs and the call
\* returns.  When the INSERT or the commit fails the transaction of the
\* INSERT is rolled back and the exception leaves migrate_to_latest.
RecordMigration ==
    /\ migrating.pc = "apply"
    /\ migrating.si > Len(migrations[migrating.mi].sql)
    /\ \E ok \in BOOLEAN :
        IF ok
        THEN LET version == migrations[migrating.mi].version
                 next == NextMigration(migrating.mi + 1, migrating.current_version)
             IN
             /\ schema_version' = schema_version \cup {version}
             /\ migrating' = [migrating EXCEPT
                    !.pc = IF next > Len(migrations) THEN "returned" ELSE "apply",
                    !.mi = next, !.si = 1]
             /\ migrated' = [migrated EXCEPT
                    !.applied = Append(@, version),
                    !.before = [db_tables |-> db_tables,
                                schema_version |-> schema_version']]
        ELSE /\ migrating' = [migrating EXCEPT !.pc = "raised"]
             /\ UNCHANGED <<schema_version, migrated>>
    /\ UNCHANGED db_tables
    /\ UNCHANGED notMigrationVars

MigrationNext ==
    \/ migrate_to_latest
    \/ ExecuteSql
    \/ RecordMigration

\* The versions greater than c, in increasing order
RECURSIVE VersionsAbove(_, _)
VersionsAbove(c, v) ==
    IF v > latest_version THEN <<>>
    ELSE IF v > c THEN <<v>> \o VersionsAbove(c, v + 1)
    ELSE VersionsAbove(c, v + 1)

\* C29: a call of migrate_to_latest on a store whose schema version is c
\* that returns has applied exactly the migrations with version greater
\* than c, in strictly increasing version order, and the recorded version is
\* then the latest one; a call on a store at the latest version applies
\* nothing.
C29_MigratesExactlyNewerVersions ==
    migrating.pc = "returned" =>
        /\ migrated.applied = VersionsAbove(migrated.c, 1)
        /\ get_current_version = latest_version

\* A call that found a store left at version 1 by a failed earlier call and
\* brought it to the latest version
C29_Witness ==
    /\ migrating.pc = "returned"
    /\ migrating.calls >= 2
    /\ migrated.c = 1
    /\ migrated.applied = <<2, 3, 4>>

\* C30: when applying a migration fails part-way, the store is as it was
\* before that migration started: none of the migration's schema changes
\* persists and the recorded schema version is not advanced.
C30_FailedMigrationLeavesStore ==
    migrating.pc = "raised" =>
        /\ db_tables = migrated.before.db_tables
        /\ schema_version = migrated.before.schema_version

(***************************************************************************)
(* Start of the application: ApplicationManager.run (main.py) with         *)
(* migrate_database and the DatabaseService objects built afterwards       *)
(***************************************************************************)
StartupInit ==
    /\ startup = [pc |-> "stopped", start |-> 0, existed |-> FALSE,
                  by |-> "none", current_version |-> 0, mi |-> 0,
                  services |-> 0]
    /\ store_file = [exists |-> FALSE, version |-> 0]
    /\ backup_files = {}
    /\ migration_log = {}

\* cli_main -> ApplicationManager.run -> initialize_services, main.py lines
\* 78-91: the configuration is loaded and migrate_database(database_path,
\* backup=True) is entered; migrate_database constructs the
\* DatabaseMigration (database_migrations.py line 364).
initialize_services ==
    /\ startup.pc = "stopped"
    /\ startup.start < MaxStarts
    /\ startup' = [startup EXCEPT !.pc = "backup", !.start = @ + 1,
                                  !.existed = store_file.exists,
                                  !.by = "none", !.services = 0]
    /\ UNCHANGED <<store_file, backup_files, migration_log>>
    /\ UNCHANGED notStartupVars

\* migrate_database with backup=False: the call goes on to migrate_to_latest
\* without copying the file
backup_database_NotTaken ==
    /\ startup.pc = "backup"
    /\ startup' = [startup EXCEPT !.pc = "migrate"]
    /\ UNCHANGED <<store_file, backup_files, migration_log>>
    /\ UNCHANGED notStartupVars

\* migrate_database lines 366-368 and backup_database lines 290-304: when
\* the file exists shutil.copy2 copies it to the backup path; a copy that
\* fails raises out of initialize_services and run ends the process with
\* sys.exit(1) (main.py lines 108-110, 205-207).
backup_database ==
    /\ startup.pc = "backup"
    /\ IF store_file.exists
       THEN \E ok \in BOOLEAN :
            IF ok
            THEN /\ backup_files' = backup_files \cup
                        {[start |-> startup.start, version |-> store_file.version]}
                 /\ startup' = [startup EXCEPT !.pc = "migrate"]
            ELSE /\ startup' = [startup EXCEPT !.pc = "stopped"]
                 /\ UNCHANGED backup_files
       ELSE /\ startup' = [startup EXCEPT !.pc = "migrate"]
            /\ UNCHANGED backup_files
    /\ UNCHANGED <<store_file, migration_log>>
    /\ UNCHANGED notStartupVars

\* The head of migrate_to_latest, lines 240-254, as called by who:
\* get_current_version connects to the file, which creates it when it does
\* not exist, and reads the version; the call returns at once at the latest
\* version, otherwise the loop reaches its first migration.
MigrateHead(who, after) ==
    LET current_version == store_file.version
        first == IF current_version >= latest_version
                 THEN Len(migrations) + 1
                 ELSE NextMigration(1, current_version)
    IN
    /\ store_file' = [store_file EXCEPT !.exists = TRUE]
    /\ startup' = [startup EXCEPT
            !.pc = IF first > Len(migrations) THEN after ELSE "apply",
            !.by = who,
            !.current_version = current_version,
            !.mi = first,
            !.services = IF who = "DatabaseService" THEN @ + 1 ELSE @]

\* migrate_database line 370: migration_manager.migrate_to_latest()
migrate_database ==
    /\ startup.pc = "migrate"
    /\ MigrateHead("migrate_database", "validate")
    /\ UNCHANGED <<backup_files, migration_log>>
    /\ UNCHANGED notStartupVars

\* apply_migration, lines 201-234, for the migration the loop of
\* migrate_to_latest has reached: when it succeeds the version is recorded
\* and the loop goes on; when it fails the exception leaves
\* migrate_to_latest and its caller, and the process ends.
apply_migration ==
    /\ startup.pc = "apply"
    /\ \E ok \in BOOLEAN :
        IF ok
        THEN LET version == migrations[startup.mi].version
                 next == NextMigration(startup.mi + 1, startup.current_version)
             IN
             /\ store_file' = [store_file EXCEPT !.version = version]
             /\ migration_log' = migration_log \cup
                    {[start |-> startup.start, version |-> version,
                      by |-> startup.by, existed |-> startup.existed,
                      backed_up |-> \E b \in backup_files :
                                        b.start = startup.start]}
             /\ startup' = [startup EXCEPT
                    !.mi = next,
                    !.pc = IF next <= Len(migrations) THEN "apply"
                           ELSE IF startup.by = "migrate_database"
                                THEN "validate" ELSE "services"]
        ELSE /\ startup' = [startup EXCEPT !.pc = "stopped"]
             /\ UNCHANGED <<store_file, migration_log>>
    /\ UNCHANGED backup_files
    /\ UNCHANGED notStartupVars

\* migrate_database lines 372-373: validate_schema returns True when every
\* expected table exists and the version is the latest one, False when it is
\* not or when reading the file fails; False raises RuntimeError and the
\* process ends.
validate_schema ==
    /\ startup.pc = "validate"
    /\ \E readable \in BOOLEAN :
        startup' = [startup EXCEPT
            !.pc = IF readable /\ store_file.version >= latest_version
                   THEN "services" ELSE "stopped"]
    /\ UNCHANGED <<store_file, backup_files, migration_log>>
    /\ UNCHANGED notStartupVars

\* MonitoringScheduler(config) at main.py line 105 and again in create_app
\* (web/app.py line 98): each builds a MonitoringOrchestrator whose
\* DatabaseService(config.database_path) runs _initialize_database,
\* database.py lines 50-54: migrate_to_latest on the same file (main.py line
\* 89 and config_loader.py line 106 read the same DATABASE_PATH), without a
\* backup.
DatabaseService ==
    /\ startup.pc = "services"
    /\ startup.services < NumServices
    /\ MigrateHead("DatabaseService", "services")
    /\ UNCHANGED <<backup_files, migration_log>>
    /\ UNCHANGED notStartupVars

\* shutdown_services and the end of ApplicationManager.run, main.py lines
\* 163-210, once the services are built and the server has run
run_returns ==
    /\ startup.pc = "services"
    /\ startup.services = NumServices
    /\ startup' = [startup EXCEPT !.pc = "stopped"]
    /\ UNCHANGED <<store_file, backup_files, migration_log>>
    /\ UNCHANGED notStartupVars

StartupNext ==
    \/ initialize_services
    \/ backup_database
    \/ migrate_database
    \/ apply_migration
    \/ validate_schema
    \/ DatabaseService
    \/ run_returns

\* C31: every migration applied to a store file that existed when the
\* process opened it is applied after a backup copy of the file was taken
\* by that process, whichever caller of migrate_to_latest applied it.
C31_BackupBeforeMigration ==
    \A e \in migration_log : e.existed => e.backed_up

\* A process that found the store left at version 1 by a start that failed,
\* copied it and then applied migration 2
C31_Witness ==
    \E e \in migration_log :
        /\ e.existed /\ e.backed_up /\ e.version = 2
        /\ [start |-> e.start, version |-> 1] \in backup_files

(***************************************************************************)
(* Retention of the monitoring records: DatabaseService.cleanup_old_records *)
(***************************************************************************)
TableNames ==
    {"component_status_history", "sla_violation_history", "alert_history",
     "jira_tickets", "system_state"}

\* The keys of system_state: the two the cleanup keeps and one other key
StateKeys == {"system_version", "installation_date", "last_monitoring_run"}

\* The value of a column that was never set; every timestamp is 0 or more
NULL == -1

\* column < ? in a WHERE clause: never true of a NULL column
Before(column, cutoff_date) == column # NULL /\ column < cutoff_date

\* The rows inserted so far, over the five tables
RECURSIVE Inserted(_)
Inserted(T) ==
    IF T = {} THEN 0
    ELSE LET table == CHOOSE t \in T : TRUE
         IN sqlite_sequence[table] + Inserted(T \ {table})

RecordsInit ==
    /\ tables = [t \in TableNames |-> {}]
    /\ sqlite_sequence = [t \in TableNames |-> 0]
    /\ records_now = 0

\* INSERT INTO table: the row gets the next AUTOINCREMENT id
InsertRow(table, row) ==
    /\ Inserted(TableNames) < MaxRecords
    /\ sqlite_sequence' = [sqlite_sequence EXCEPT ![table] = @ + 1]
    /\ tables' = [tables EXCEPT ![table] =
                    @ \cup {[id |-> sqlite_sequence[table] + 1] @@ row}]

\* UPDATE table SET ... WHERE id = ?
UpdateRow(table, id, changed) ==
    tables' = [tables EXCEPT ![table] =
                {IF row.id = id THEN changed @@ row ELSE row : row \in @}]

\* DatabaseService.record_component_status: recorded_at = datetime.utcnow()
record_component_status ==
    /\ InsertRow("component_status_history", [recorded_at |-> records_now])
    /\ UNCHANGED records_now
    /\ UNCHANGED notRecordsVars

\* DatabaseService.record_sla_violation: is_resolved False, updated_at is the
\* column default CURRENT_TIMESTAMP
record_sla_violation_row ==
    /\ InsertRow("sla_violation_history",
                 [is_resolved |-> FALSE, updated_at |-> records_now])
    /\ UNCHANGED records_now
    /\ UNCHANGED notRecordsVars

\* DatabaseService.resolve_sla_violation: when the row exists it is marked
\* resolved and updated_at is set to CURRENT_TIMESTAMP
resolve_sla_violation_row ==
    /\ \E row \in tables["sla_violation_history"] :
        UpdateRow("sla_violation_history", row.id,
                  [is_resolved |-> TRUE, updated_at |-> records_now])
    /\ UNCHANGED <<sqlite_sequence, records_now>>
    /\ UNCHANGED notRecordsVars

\* DatabaseService.record_alert: is_resolved takes the column default FALSE,
\* resolved_at stays NULL
record_alert ==
    /\ InsertRow("alert_history", [is_resolved |-> FALSE, resolved_at |-> NULL])
    /\ UNCHANGED records_now
    /\ UNCHANGED notRecordsVars

\* DatabaseService.resolve_alert
resolve_alert ==
    /\ \E row \in tables["alert_history"] :
        UpdateRow("alert_history", row.id,
                  [is_resolved |-> TRUE, resolved_at |-> records_now])
    /\ UNCHANGED <<sqlite_sequence, records_now>>
    /\ UNCHANGED notRecordsVars

\* DatabaseService.record_jira_ticket: resolved_at is not in the column list
record_jira_ticket ==
    /\ \E ticket_status \in {"Open"} :
        InsertRow("jira_tickets",
                  [ticket_status |-> ticket_status, resolved_at |-> NULL])
    /\ UNCHANGED records_now
    /\ UNCHANGED notRecordsVars

\* DatabaseService.update_jira_ticket_status: resolved_at is written only
\* when the caller passes one and the new status is resolved, closed or done;
\* otherwise only the status changes and resolved_at keeps its value.
update_jira_ticket_status ==
    /\ \E row \in tables["jira_tickets"],
          new_status \in {"Open", "In Progress", "Resolved"},
          resolved_at \in {NULL, records_now} :
        IF resolved_at # NULL /\ new_status \in {"Resolved", "Closed", "Done"}
        THEN UpdateRow("jira_tickets", row.id,
                       [ticket_status |-> new_status, resolved_at |-> resolved_at])
        ELSE UpdateRow("jira_tickets", row.id, [ticket_status |-> new_status])
    /\ UNCHANGED <<sqlite_sequence, records_now>>
    /\ UNCHANGED notRecordsVars

\* DatabaseService.set_system_state: INSERT OR REPLACE on the unique
\* state_key, which deletes the row of the key and inserts a new one
set_system_state ==
    /\ \E state_key \in StateKeys :
        /\ Inserted(TableNames) < MaxRecords
        /\ sqlite_sequence' = [sqlite_sequence EXCEPT !["system_state"] = @ + 1]
        /\ tables' = [tables EXCEPT !["system_state"] =
                {row \in @ : row.state_key # state_key} \cup
                {[id |-> sqlite_sequence["system_state"] + 1,
                  state_key |-> state_key, updated_at |-> records_now]}]
    /\ UNCHANGED records_now
    /\ UNCHANGED notRecordsVars

\* cleanup_old_records deleting every violation last updated before the
\* cutoff, resolved or not
cleanup_old_records_AnyViolation ==
    /\ LET cutoff_date == records_now - days_to_keep IN
        tables' = [tables EXCEPT
            !["component_status_history"] =
                {row \in @ : ~Before(row.recorded_at, cutoff_date)},
            !["sla_violation_history"] =
                {row \in @ : ~Before(row.updated_at, cutoff_date)},
            !["alert_history"] =
                {row \in @ : ~(row.is_resolved /\ Before(row.resolved_at, cutoff_date))},
            !["jira_tickets"] =
                {row \in @ : ~(row.resolved_at # NULL
                               /\ Before(row.resolved_at, cutoff_date))},
            !["system_state"] =
                {row \in @ : ~(Before(row.updated_at, cutoff_date)
                               /\ row.state_key \notin
                                    {"system_version", "installation_date"})}]
    /\ UNCHANGED <<sqlite_sequence, records_now>>
    /\ UNCHANGED notRecordsVars

\* DatabaseService.cleanup_old_records: the five DELETE statements in one
\* transaction; when a statement or the commit fails _get_connection rolls
\* the transaction back and every table keeps its rows.
cleanup_old_records ==
    /\ \E committed \in BOOLEAN :
        LET cutoff_date == records_now - days_to_keep IN
        IF committed
        THEN tables' = [tables EXCEPT
            !["component_status_history"] =
                {row \in @ : ~Before(row.recorded_at, cutoff_date)},
            !["sla_violation_history"] =
                {row \in @ : ~(row.is_resolved /\ Before(row.updated_at, cutoff_date))},
            !["alert_history"] =
                {row \in @ : ~(row.is_resolved /\ Before(row.resolved_at, cutoff_date))},
            !["jira_tickets"] =
                {row \in @ : ~(row.resolved_at # NULL
                               /\ Before(row.resolved_at, cutoff_date))},
            !["system_state"] =
                {row \in @ : ~(Before(row.updated_at, cutoff_date)
                               /\ row.state_key \notin
                                    {"system_version", "installation_date"})}]
        ELSE UNCHANGED tables
    /\ UNCHANGED <<sqlite_sequence, records_now>>
    /\ UNCHANGED notRecordsVars

\* Time passes, one retention period at a time
RecordsTick ==
    /\ records_now + days_to_keep <= MaxRecordsDays
    /\ records_now' = records_now + days_to_keep
    /\ UNCHANGED <<tables, sqlite_sequence>>
    /\ UNCHANGED notRecordsVars

RecordsNext ==
    \/ record_component_status
    \/ record_sla_violation_row
    \/ resolve_sla_violation_row
    \/ record_alert
    \/ resolve_alert
    \/ record_jira_ticket
    \/ update_jira_ticket_status
    \/ set_system_state
    \/ cleanup_old_records
    \/ RecordsTick

\* The rows of a table that a step removes: their id is in no row after it
RowsDeleted(table) ==
    {row \in tables[table] : \A kept \in tables'[table] : kept.id # row.id}

\* The time the retention rule measures the age of a row by
RetentionTime(table, row) ==
    CASE table = "component_status_history" -> row.recorded_at
      [] table = "sla_violation_history" -> row.updated_at
      [] table = "alert_history" -> row.resolved_at
      [] table = "jira_tickets" -> row.resolved_at
      [] table = "system_state" -> row.updated_at

\* C32: a step of the cleanup deletes no unresolved violation, no
\* unresolved alert, no unresolved ticket, no system_state row with key
\* system_version or installation_date, whatever their age, and no row that
\* is as new as the cutoff or newer.
C32_CleanupDeletesOnlyCoveredRows ==
    [][ (sqlite_sequence' = sqlite_sequence /\ records_now' = records_now) =>
        LET cutoff_date == records_now - days_to_keep IN
        /\ \A row \in RowsDeleted("sla_violation_history") : row.is_resolved
        /\ \A row \in RowsDeleted("alert_history") : row.is_resolved
        /\ \A row \in RowsDeleted("jira_tickets") : row.resolved_at # NULL
        /\ \A row \in RowsDeleted("system_state") :
                row.state_key \notin {"system_version", "installation_date"}
        /\ \A table \in TableNames : \A row \in RowsDeleted(table) :
                /\ RetentionTime(table, row) # NULL
                /\ RetentionTime(table, row) < cutoff_date ]_vars

\* The cleanup has deleted the first violation, resolved two periods ago,
\* and kept an unresolved violation as old and the system_version row
C32_Witness ==
    /\ records_now = 2 * days_to_keep
    /\ sqlite_sequence["sla_violation_history"] = 2
    /\ \E row \in tables["sla_violation_history"] :
        /\ ~row.is_resolved /\ row.updated_at = 0
        /\ tables["sla_violation_history"] = {row}
    /\ \E row \in tables["system_state"] :
        row.state_key = "system_version" /\ row.updated_at = 0

(***************************************************************************)
(* The probe client: InfluxDBClientWrapper._retry_operation around         *)
(* _execute_query_http                                                     *)
(***************************************************************************)
\* What one request of _execute_query_http can end with: the status of the
\* response, or the httpx exception client.get raises (status 0)
Responses ==
    { [status |-> 200, raised |-> "none"],
      [status |-> 401, raised |-> "none"],
      [status |-> 404, raised |-> "none"],
      [status |-> 500, raised |-> "none"],
      [status |-> 0, raised |-> "httpx.TimeoutException"],
      [status |-> 0, raised |-> "httpx.ConnectError"],
      [status |-> 0, raised |-> "httpx.UnsupportedProtocol"] }

\* _execute_query_http, lines 294-306: the exception the operation raises
\* for a response; a status other than 200 becomes requests.RequestException,
\* an httpx exception passes through
_execute_query_http(response) ==
    IF response.raised # "none" THEN response.raised
    ELSE IF response.status # 200 THEN "requests.RequestException"
    ELSE "none"

ClientInit ==
    /\ retry_operation = [pc |-> "idle", calls |-> 0, attempt |-> 0,
                          last_exception |-> "none"]
    /\ http_requests = <<>>

\* query_ping_status, test_connection and the other operations enter
\* _retry_operation, lines 242-244
EnterRetryOperation ==
    /\ retry_operation.pc \in {"idle", "returned", "raised"}
    /\ retry_operation.calls < MaxClientCalls
    /\ retry_operation' = [pc |-> "try", calls |-> retry_operation.calls + 1,
                           attempt |-> 0, last_exception |-> "none"]
    /\ http_requests' = <<>>
    /\ UNCHANGED notClientVars

\* One pass of the loop for attempt in range(self.max_retries + 1), lines
\* 244-265: the operation sends one request; its result is returned; a
\* requests.RequestException is kept as last_exception and, unless attempt
\* equals max_retries, the loop sleeps and goes on; any other exception is
\* raised at once.  After the last pass last_exception is raised (line 267).
RetryPass ==
    /\ retry_operation.pc = "try"
    /\ \E response \in Responses :
        LET e == _execute_query_http(response) IN
        /\ http_requests' = Append(http_requests, response)
        /\ retry_operation' =
            IF e = "none"
            THEN [retry_operation EXCEPT !.pc = "returned"]
            ELSE IF e = "requests.RequestException"
            THEN IF retry_operation.attempt = max_retries
                 THEN [retry_operation EXCEPT !.pc = "raised",
                                              !.last_exception = e]
                 ELSE [retry_operation EXCEPT !.attempt = @ + 1,
                                              !.last_exception = e]
            ELSE [retry_operation EXCEPT !.pc = "raised", !.last_exception = e]
    /\ UNCHANGED notClientVars

ClientNext ==
    \/ EnterRetryOperation
    \/ RetryPass

\* The error class of a failed request
ErrorClass(response) ==
    CASE response.raised = "httpx.TimeoutException" -> "TIMEOUT"
      [] response.raised = "httpx.ConnectError" -> "CONNECTION"
      [] response.raised = "httpx.UnsupportedProtocol" -> "CONFIG"
      [] response.status \in {401, 403} -> "AUTH"
      [] response.status \in 400..499 -> "HTTP_4XX"
      [] response.status \in 500..599 -> "HTTP_5XX"
      [] OTHER -> "NONE"

\* C33: inside the probe client a request is followed by another request of
\* the same call only when it failed with an error of a retryable class
\* (TIMEOUT, CONNECTION, HTTP 5xx); an AUTH, CONFIG or HTTP 4xx error is
\* the last request of the call.
C33_OnlyRetryableErrorsRetried ==
    \A i \in 1..(Len(http_requests) - 1) :
        ErrorClass(http_requests[i]) \in {"TIMEOUT", "CONNECTION", "HTTP_5XX"}

\* C34: one call of the probe client sends at most the configured number
\* of requests, 3 by default.
C34_AtMostConfiguredAttempts ==
    Len(http_requests) <= max_retries

(***************************************************************************)
(* Ping samples of a component: DevicePingData, PingData and               *)
(* DataCollector._collect_component_status                                 *)
(***************************************************************************)
Devices == 1..NumDevices

\* DevicePingData.get_current_status
get_current_status(device) ==
    IF device.ping_success = <<>> \/ device.timestamps = <<>> THEN "UNKNOWN"
    ELSE IF device.ping_success[Len(device.ping_success)] THEN "UP"
    ELSE "DOWN"

\* The loop of DevicePingData.calculate_downtime_aging from index i down:
\* the time since the last successful sample, 0 when there is none at or
\* before i (the caller then takes the first sample)
RECURSIVE SinceLastSuccess(_, _, _)
SinceLastSuccess(device, i, now) ==
    IF i = 0 THEN now - device.timestamps[1]
    ELSE IF device.ping_success[i] THEN now - device.timestamps[i]
    ELSE SinceLastSuccess(device, i - 1, now)

\* DevicePingData.calculate_downtime_aging
calculate_downtime_aging(device, now) ==
    IF device.timestamps = <<>> \/ device.ping_success = <<>> THEN 0
    ELSE SinceLastSuccess(device, Len(device.ping_success), now)

\* PingData.get_current_status: UP when at least half of the devices are UP
PingData_get_current_status(devices) ==
    LET up_devices == Cardinality({d \in DOMAIN devices :
                                    get_current_status(devices[d]) = "UP"})
    IN IF Len(devices) = 0 THEN "UNKNOWN"
       ELSE IF up_devices = 0 THEN "DOWN"
       ELSE IF 2 * up_devices >= Len(devices) THEN "UP"
       ELSE "DOWN"

\* PingData.calculate_downtime_aging: the maximum over the devices
PingData_calculate_downtime_aging(devices, now) ==
    LET agings == {calculate_downtime_aging(devices[d], now) : d \in DOMAIN devices}
                    \cup {0}
    IN CHOOSE a \in agings : \A b \in agings : b <= a

PingInit ==
    /\ ping_devices = [d \in Devices |-> [timestamps |-> <<>>, ping_success |-> <<>>]]
    /\ ping_now = 0
    /\ collected = [computed |-> FALSE, statuses |-> <<>>, agings |-> <<>>,
                    current_status |-> "UNKNOWN", downtime_aging |-> 0]

\* The vessel's ping agent writes one sample of a device into the database
\* (query_ping_status lines 366-386 reads them back in time order); a
\* device is sampled at most once per interval
PingSample ==
    /\ \E d \in Devices, success \in BOOLEAN :
        /\ Len(ping_devices[d].timestamps) < MaxSamples
        /\ \A i \in DOMAIN ping_devices[d].timestamps :
                ping_devices[d].timestamps[i] < ping_now
        /\ ping_devices' = [ping_devices EXCEPT
                ![d] = [timestamps |-> Append(@.timestamps, ping_now),
                        ping_success |-> Append(@.ping_success, success)]]
    /\ UNCHANGED <<ping_now, collected>>
    /\ UNCHANGED notPingVars

\* One sample interval passes
PingTick ==
    /\ ping_now < MaxPingClock
    /\ ping_now' = ping_now + 1
    /\ UNCHANGED <<ping_devices, collected>>
    /\ UNCHANGED notPingVars

\* DataCollector._collect_component_status, lines 149-167: the status and
\* the downtime aging of the component are computed from the samples read;
\* the values of the devices they are computed from are kept with them
_collect_component_status ==
    /\ collected' =
        [computed |-> TRUE,
         statuses |-> [d \in Devices |-> get_current_status(ping_devices[d])],
         agings |-> [d \in Devices |->
                        calculate_downtime_aging(ping_devices[d], ping_now)],
         current_status |-> PingData_get_current_status(ping_devices),
         downtime_aging |-> PingData_calculate_downtime_aging(ping_devices, ping_now)]
    /\ UNCHANGED <<ping_devices, ping_now>>
    /\ UNCHANGED notPingVars

PingNext ==
    \/ PingSample
    \/ PingTick
    \/ _collect_component_status

\* C35: a device whose most recent sample is successful, that is whose
\* current status is UP, has downtime aging 0, whatever its earlier samples.
C35_UpDeviceHasNoAging ==
    collected.computed =>
        \A d \in Devices : collected.statuses[d] = "UP" => collected.agings[d] = 0

(***************************************************************************)
(* Specifications                                                          *)
(***************************************************************************)
Init ==
    /\ SchedInit /\ SlaInit /\ ApprovalInit /\ DupInit /\ TrigInit /\ StepInit
    /\ FleetInit /\ RetentionInit /\ MigrationInit /\ StartupInit
    /\ RecordsInit /\ ClientInit /\ PingInit /\ WorkflowInit

SchedSpec == Init /\ [][SchedNext]_vars

\* The run as the event loop executes it: a coroutine that is not cancelled
\* is resumed until it returns or raises.
RunLifeSpec == Init /\ [][RunLifeNext]_vars /\ WF_vars(SchedNext)

SlaSpec == Init /\ [][SlaNext]_vars

ApprovalSpec == Init /\ [][ApprovalNext]_vars

DupSpec == Init /\ [][DupNext]_vars

TrigSpec == Init /\ [][TrigNext]_vars

StepSpec == Init /\ [][StepNext]_vars

FleetSpec == Init /\ [][FleetNext]_vars

RetentionSpec == Init /\ [][RetentionNext]_vars

MigrationSpec == Init /\ [][MigrationNext]_vars

StartupSpec == Init /\ [][StartupNext]_vars

RecordsSpec == Init /\ [][RecordsNext]_vars

ClientSpec == Init /\ [][ClientNext]_vars

PingSpec == Init /\ [][PingNext]_vars
====
